---- MODULE Spec2Model ----
(***************************************************************************)
(* Order-fulfilment automation: the Vendure client's fulfilment-creation   *)
(* protocol, the outstanding-line calculator, the batch runs               *)
(* (api/fulfill-orders handler and runFulfillOrders) and the two Printify  *)
(* webhook implementations (api/printify-webhook handler and               *)
(* handlePrintifyWebhook).                                                 *)
(*                                                                         *)
(* Every handler is a sequence of steps, one per awaited remote call; the  *)
(* remote side's answer to each call is chosen by the step.  `calls` is    *)
(* the log of every remote call sent, in order.                            *)
(***************************************************************************)
EXTENDS Integers, Sequences, FiniteSets, TLC

VARIABLES
  entry,              \* which entry point runs: "create", "endpoint", "cli", "webhookApi", "webhookLib", "calc"
  pc,                 \* position of the running handler
  cfg,                \* the AutomationConfig returned by loadConfig
  req,                \* what the handler has read of its request
  schema,             \* mutation names of the Order System, once introspected
  calls,              \* log of remote calls sent so far
  orders,             \* batch: the orders returned by fetchOrders
  idx,                \* batch: index of the order being processed
  canVendureFulfill,  \* endpoint: result of supportsCreateFulfillment
  successCount,       \* endpoint: successCount
  failures,           \* endpoint: failures
  dryRunNotes,        \* endpoint: dryRunNotes
  cf,                 \* locals of the running createFulfillment call
  wh,                 \* webhook: order, target state and tracking being applied
  response,           \* what the invocation answered
  tg,                 \* TelegramReporter: the notification being delivered
  mapping,            \* loadConfig: the mapping source read and the product mapping loaded
  calcOrder,          \* calculator: the raw order given
  calcResult          \* calculator: the outstanding lines returned

vars == <<entry, pc, cfg, req, schema, calls, orders, idx, canVendureFulfill,
          successCount, failures, dryRunNotes, cf, wh, response, tg, mapping,
          calcOrder, calcResult>>

-----------------------------------------------------------------------------
(* Bounds *)

MaxOrders == 2      \* orders the Order System lists in one run
MaxLines == 2       \* lines of an order given to the calculator
MaxQty == 2         \* ordered quantity of such a line

-----------------------------------------------------------------------------
(* Values *)

Null == "<null>"           \* JavaScript null / undefined
NaN == [num |-> FALSE, val |-> 0]
Num(n) == [num |-> TRUE, val |-> n]

Truthy(s) == s # Null /\ s # ""

-----------------------------------------------------------------------------
(* Strings as character sequences, for the substring and hex operations *)

Chars(s) ==
  CASE s = "" -> <<>>
    [] s = "order:sent-to-production" -> <<"o", "r", "d", "e", "r", ":", "s", "e", "n", "t", "-", "t", "o", "-", "p", "r", "o", "d", "u", "c", "t", "i", "o", "n">>
    [] s = "order:shipment:created" -> <<"o", "r", "d", "e", "r", ":", "s", "h", "i", "p", "m", "e", "n", "t", ":", "c", "r", "e", "a", "t", "e", "d">>
    [] s = "order:shipment:delivered" -> <<"o", "r", "d", "e", "r", ":", "s", "h", "i", "p", "m", "e", "n", "t", ":", "d", "e", "l", "i", "v", "e", "r", "e", "d">>
    [] s = "Order:Shipped" -> <<"O", "r", "d", "e", "r", ":", "S", "h", "i", "p", "p", "e", "d">>
    [] s = "order:created" -> <<"o", "r", "d", "e", "r", ":", "c", "r", "e", "a", "t", "e", "d">>
    [] s = "shipped" -> <<"s", "h", "i", "p", "p", "e", "d">>
    [] s = "delivered" -> <<"d", "e", "l", "i", "v", "e", "r", "e", "d">>
    [] s = "fulfilled" -> <<"f", "u", "l", "f", "i", "l", "l", "e", "d">>
    [] s = "Shipped" -> <<"S", "h", "i", "p", "p", "e", "d">>
    [] s = "INVALID_FULFILLMENT_HANDLER" -> <<"I", "N", "V", "A", "L", "I", "D", "_", "F", "U", "L", "F", "I", "L", "L", "M", "E", "N", "T", "_", "H", "A", "N", "D", "L", "E", "R">>
    [] s = "ORDER_STATE_TRANSITION_ERROR" -> <<"O", "R", "D", "E", "R", "_", "S", "T", "A", "T", "E", "_", "T", "R", "A", "N", "S", "I", "T", "I", "O", "N", "_", "E", "R", "R", "O", "R">>
    [] s = "InvalidFulfillmentHandler" -> <<"I", "n", "v", "a", "l", "i", "d", "F", "u", "l", "f", "i", "l", "l", "m", "e", "n", "t", "H", "a", "n", "d", "l", "e", "r">>
    [] s = "No handler registered" -> <<"N", "o", " ", "h", "a", "n", "d", "l", "e", "r", " ", "r", "e", "g", "i", "s", "t", "e", "r", "e", "d">>
    [] s = "InvalidFulfillmentHandler: unknown code" -> <<"I", "n", "v", "a", "l", "i", "d", "F", "u", "l", "f", "i", "l", "l", "m", "e", "n", "t", "H", "a", "n", "d", "l", "e", "r", ":", " ", "u", "n", "k", "n", "o", "w", "n", " ", "c", "o", "d", "e">>
    [] s = "Cannot transition order" -> <<"C", "a", "n", "n", "o", "t", " ", "t", "r", "a", "n", "s", "i", "t", "i", "o", "n", " ", "o", "r", "d", "e", "r">>
    [] s = "a1f0" -> <<"a", "1", "f", "0">>
    [] s = "A1F0" -> <<"A", "1", "F", "0">>
    [] s = "b2c3" -> <<"b", "2", "c", "3">>
    [] s = "a1" -> <<"a", "1">>
    [] s = "zzzz" -> <<"z", "z", "z", "z">>

Upper == <<"A","B","C","D","E","F","G","H","I","J","K","L","M","N","O","P","Q","R","S","T","U","V","W","X","Y","Z">>
Lower == <<"a","b","c","d","e","f","g","h","i","j","k","l","m","n","o","p","q","r","s","t","u","v","w","x","y","z">>

ToLowerChar(c) ==
  IF \E i \in DOMAIN Upper : Upper[i] = c
    THEN Lower[CHOOSE i \in DOMAIN Upper : Upper[i] = c]
    ELSE c

\* String.prototype.toLowerCase
ToLower(cs) == [i \in DOMAIN cs |-> ToLowerChar(cs[i])]

\* String.prototype.includes
Includes(hay, needle) ==
  \E i \in 0..(Len(hay) - Len(needle)) : SubSeq(hay, i + 1, i + Len(needle)) = needle

\* /pattern/i.test(text) for a pattern without metacharacters
RegexTestI(pattern, text) == Includes(ToLower(Chars(text)), ToLower(Chars(pattern)))

HexDigits == <<"0","1","2","3","4","5","6","7","8","9","a","b","c","d","e","f">>

IsHex(c) == \E i \in DOMAIN HexDigits : HexDigits[i] = ToLowerChar(c)

HexVal(c) == (CHOOSE i \in DOMAIN HexDigits : HexDigits[i] = ToLowerChar(c)) - 1

\* Buffer.from(text, 'hex'): one byte per pair of hex digits, cut at the first pair that is not hex
RECURSIVE BufferFromHex(_)
BufferFromHex(cs) ==
  IF Len(cs) < 2 \/ ~IsHex(cs[1]) \/ ~IsHex(cs[2])
    THEN <<>>
    ELSE <<16 * HexVal(cs[1]) + HexVal(cs[2])>> \o BufferFromHex(SubSeq(cs, 3, Len(cs)))

-----------------------------------------------------------------------------
(* Order summaries and the outstanding-line calculator *)

\* the reduce of toOrderSummary: Number(item.quantity), added when finite
RECURSIVE FulfilledQuantity(_)
FulfilledQuantity(fulfillmentLines) ==
  IF fulfillmentLines = <<>>
    THEN 0
    ELSE LET item == fulfillmentLines[Len(fulfillmentLines)]
             total == FulfilledQuantity(SubSeq(fulfillmentLines, 1, Len(fulfillmentLines) - 1))
         IN IF item.num THEN total + item.val ELSE total

toOrderSummary(order) ==
  [id |-> order.id,
   code |-> order.code,
   state |-> order.state,
   fulfillments |-> order.fulfillments,
   lines |-> [i \in DOMAIN order.lines |->
                [id |-> order.lines[i].id,
                 quantity |-> order.lines[i].quantity,
                 sku |-> order.lines[i].sku,
                 name |-> order.lines[i].name,
                 fulfilledQuantity |-> FulfilledQuantity(order.lines[i].fulfillmentLines)]],
   shippingAddress |-> order.shippingAddress,
   email |-> order.email]

\* a line is left out when nothing of it is outstanding
ExcludedIncludesOnlyNegative(outstanding) == outstanding < 0

Excluded(outstanding) == outstanding <= 0

RECURSIVE OutstandingOf(_)
OutstandingOf(lines) ==
  IF lines = <<>>
    THEN <<>>
    ELSE LET line == Head(lines)
             outstanding == line.quantity - line.fulfilledQuantity
         IN IF Excluded(outstanding)
              THEN OutstandingOf(Tail(lines))
              ELSE <<[orderLineId |-> line.id,
                      quantity |-> outstanding,
                      sku |-> line.sku,
                      variantName |-> line.name]>> \o OutstandingOf(Tail(lines))

RECURSIVE Reversed(_)
Reversed(seq) == IF seq = <<>> THEN <<>> ELSE Append(Reversed(Tail(seq)), Head(seq))

getOutstandingFulfillmentLinesReversed(order) == Reversed(OutstandingOf(order.lines))

\* order.lines.map(...).filter(line => line !== null)
getOutstandingFulfillmentLines(order) == OutstandingOf(order.lines)

\* the { orderLineId, quantity } lines both batch runs give to createFulfillment
LinesForVendure(outstanding) ==
  [i \in DOMAIN outstanding |->
     [orderLineId |-> outstanding[i].orderLineId, quantity |-> outstanding[i].quantity]]

-----------------------------------------------------------------------------
(* Remote calls *)

Call(op, target, arg) == [op |-> op, target |-> target, arg |-> arg]

Notify(step) == Call("notify", step, Null)

CallsOf(op) == SelectSeq(calls, LAMBDA c : c.op = op)

\* the two fulfillment-creation mutations
CreationOps == {"createFulfillment", "addFulfillmentToOrder"}

CreationCalls == SelectSeq(calls, LAMBDA c : c.op \in CreationOps)

NoResult == [kind |-> "none"]
Threw(message) == [kind |-> "threw", message |-> message]

NoResponse == [kind |-> "none"]
Http(status, body) == [kind |-> "http", status |-> status, body |-> body]
Rejected(message) == [kind |-> "rejected", message |-> message]

-----------------------------------------------------------------------------
(* VendureClient.createFulfillment *)

\* the answers the Order System can give to the introspection query
SchemaOptions ==
  {{"createFulfillment", "addFulfillmentToOrder"}, {"createFulfillment"},
   {"addFulfillmentToOrder"}, {}}

UnknownSchema == [known |-> FALSE, names |-> {}]

\* the Order System's schema does not change during an invocation; a batch run is given
\* one schema of each kind (modern shape, older shape only, neither)
SchemaAnswers ==
  IF schema.known THEN {schema.names}
  ELSE IF entry = "create" THEN SchemaOptions
  ELSE SchemaOptions \ {{"createFulfillment"}}

\* the request of a creation mutation can fail in transport; in a batch run the transport
\* failure explored is that of the introspection query
MutationCanFail == entry = "create"

FulfillmentCreated ==
  [typename |-> "Fulfillment", id |-> "F-new", state |-> "Pending", method |-> "printify",
   errorCode |-> Null, message |-> Null, transitionError |-> Null]

ErrorResult(typename, errorCode, message, transitionError) ==
  [typename |-> typename, id |-> Null, state |-> Null, method |-> Null,
   errorCode |-> errorCode, message |-> message, transitionError |-> transitionError]

\* the answers the Order System can give to a fulfillment-creation mutation; a batch run
\* is given one answer of each class
CreationAnswers ==
  {FulfillmentCreated,
   ErrorResult("CreateFulfillmentError", "INVALID_FULFILLMENT_HANDLER", "No handler registered", Null),
   ErrorResult("OrderStateTransitionError", "ORDER_STATE_TRANSITION_ERROR",
               "Cannot transition order", "Order not ready")}
  \cup (IF entry = "create"
          THEN {ErrorResult("CreateFulfillmentError", Null,
                            "InvalidFulfillmentHandler: unknown code", Null),
                ErrorResult("InsufficientStockError", Null, Null, Null)}
          ELSE {})

isFulfillmentSuccess(result) == result.typename = "Fulfillment"

\* x ?? ''
OrEmpty(s) == IF s = Null THEN "" ELSE s

IsInvalidHandlerAlways(result) == TRUE

IsInvalidHandler(result) ==
  \/ RegexTestI("INVALID_FULFILLMENT_HANDLER", OrEmpty(result.errorCode))
  \/ RegexTestI("InvalidFulfillmentHandler", OrEmpty(result.message))

\* [message, transitionError].filter(Boolean).join(' - ') || 'Unknown fulfillment error',
\* kept as the sequence of the joined parts
ErrorMessage(result) ==
  LET parts == SelectSeq(<<result.message, result.transitionError>>, Truthy)
  IN IF parts = <<>> THEN <<"Unknown fulfillment error">> ELSE parts

Succeeded(result) ==
  [kind |-> "value", success |-> TRUE, fulfillmentId |-> result.id, state |-> result.state,
   method |-> result.method, message |-> <<>>]

Failed(message) ==
  [kind |-> "value", success |-> FALSE, fulfillmentId |-> Null, state |-> Null,
   method |-> Null, message |-> message]

\* the arguments of the older mutation shape
HandlerArgs(input) ==
  (IF Truthy(input.method) THEN <<[name |-> "method", value |-> input.method]>> ELSE <<>>)
  \o (IF Truthy(input.trackingCode)
        THEN <<[name |-> "trackingCode", value |-> input.trackingCode]>> ELSE <<>>)

\* the variables of the mutation, for either shape, sent with handler code `code`
MutationInput(shape, input, code) ==
  IF shape = "createFulfillment"
    THEN [orderId |-> input.orderId, lines |-> input.lines, handlerCode |-> code,
          method |-> input.method, trackingCode |-> input.trackingCode,
          customFields |-> input.customFields]
    ELSE [lines |-> input.lines, handler |-> [code |-> code, arguments |-> HandlerArgs(input)],
          customFields |-> input.customFields]

RetryInputDropsTracking(shape, input) ==
  MutationInput(shape, [input EXCEPT !.trackingCode = Null], "manual-fulfillment")

RetryInput(shape, input) == MutationInput(shape, input, "manual-fulfillment")

\* no answer received
NoAnswer == ErrorResult("none", Null, Null, Null)

NoInput ==
  [orderId |-> Null, lines |-> <<>>, handlerCode |-> Null, method |-> Null,
   trackingCode |-> Null, customFields |-> Null]

IdleCf ==
  [input |-> NoInput, shape |-> Null, first |-> NoAnswer, retry |-> NoAnswer,
   result |-> NoResult]

\* where createFulfillment returns to
AfterCreate == "cfReturn"

ShapeForPrefersOlder(names) ==
  IF "addFulfillmentToOrder" \in names THEN "addFulfillmentToOrder"
  ELSE IF "createFulfillment" \in names THEN "createFulfillment"
  ELSE Null

\* the branch of createFulfillment taken: names.includes('createFulfillment') is tested first
ShapeFor(names) ==
  IF "createFulfillment" \in names THEN "createFulfillment"
  ELSE IF "addFulfillmentToOrder" \in names THEN "addFulfillmentToOrder"
  ELSE Null

\* the introspection query, and the choice of the mutation shape
CfIntrospect ==
  /\ pc = "cfIntrospect"
  /\ \/ /\ calls' = Append(calls, Call("introspect", Null, Null))
        /\ cf' = [cf EXCEPT !.result = Threw("Vendure request failed")]
        /\ pc' = AfterCreate
        /\ UNCHANGED schema
     \/ \E names \in SchemaAnswers :
          /\ calls' = Append(calls, Call("introspect", Null, Null))
          /\ schema' = [known |-> TRUE, names |-> names]
          /\ IF ShapeFor(names) # Null
               THEN cf' = [cf EXCEPT !.shape = ShapeFor(names)] /\ pc' = "cfFirst"
               ELSE /\ cf' = [cf EXCEPT !.result =
                                Threw("Vendure Admin API does not support fulfillment mutations")]
                    /\ pc' = AfterCreate
  /\ UNCHANGED <<tg, mapping, entry, cfg, req, orders, idx, canVendureFulfill, successCount, failures,
                 dryRunNotes, wh, response, calcOrder, calcResult>>

\* the first creation mutation, with the caller's handler code
CfFirst ==
  /\ pc = "cfFirst"
  /\ calls' = Append(calls, Call(cf.shape, cf.input.orderId,
                                 MutationInput(cf.shape, cf.input, cf.input.handlerCode)))
  /\ \/ /\ MutationCanFail
        /\ cf' = [cf EXCEPT !.result = Threw("Vendure request failed")]
        /\ pc' = AfterCreate
     \/ \E result \in CreationAnswers :
          IF isFulfillmentSuccess(result)
            THEN /\ cf' = [cf EXCEPT !.first = result, !.result = Succeeded(result)]
                 /\ pc' = AfterCreate
            ELSE IF IsInvalidHandler(result)
              THEN /\ cf' = [cf EXCEPT !.first = result]
                   /\ pc' = "cfRetry"
              ELSE /\ cf' = [cf EXCEPT !.first = result, !.result = Failed(ErrorMessage(result))]
                   /\ pc' = AfterCreate
  /\ UNCHANGED <<tg, mapping, entry, cfg, req, schema, orders, idx, canVendureFulfill, successCount,
                 failures, dryRunNotes, wh, response, calcOrder, calcResult>>

\* the one retry, with handler code manual-fulfillment
CfRetry ==
  /\ pc = "cfRetry"
  /\ calls' = Append(calls, Call(cf.shape, cf.input.orderId, RetryInput(cf.shape, cf.input)))
  /\ \/ MutationCanFail /\ cf' = [cf EXCEPT !.result = Threw("Vendure request failed")]
     \/ \E retryResult \in CreationAnswers :
          IF isFulfillmentSuccess(retryResult)
            THEN cf' = [cf EXCEPT !.retry = retryResult, !.result = Succeeded(retryResult)]
            ELSE cf' = [cf EXCEPT !.retry = retryResult,
                                  !.result = Failed(ErrorMessage(retryResult))]
  /\ pc' = AfterCreate
  /\ UNCHANGED <<tg, mapping, entry, cfg, req, schema, orders, idx, canVendureFulfill, successCount,
                 failures, dryRunNotes, wh, response, calcOrder, calcResult>>

\* a caller invokes createFulfillment on a fresh client
CreateInputs ==
  [orderId : {"O1"},
   lines : {<<[orderLineId |-> "L1", quantity |-> 2]>>},
   handlerCode : {"manual-fulfillment", "printify-handler"},
   method : {Null, "printify"},
   trackingCode : {Null, "T1"},
   customFields : {Null, "gift"}]

CallCreateFulfillment ==
  /\ pc = "idle"
  /\ \E input \in CreateInputs : cf' = [IdleCf EXCEPT !.input = input]
  /\ entry' = "create"
  /\ pc' = "cfIntrospect"
  /\ UNCHANGED <<tg, mapping, cfg, req, schema, calls, orders, idx, canVendureFulfill, successCount,
                 failures, dryRunNotes, wh, response, calcOrder, calcResult>>

\* createFulfillment returns (or throws) to that caller
CreateReturn ==
  /\ pc = "cfReturn"
  /\ entry = "create"
  /\ response' = cf.result
  /\ pc' = "done"
  /\ UNCHANGED <<tg, mapping, entry, cfg, req, schema, calls, orders, idx, canVendureFulfill, successCount,
                 failures, dryRunNotes, cf, wh, calcOrder, calcResult>>

-----------------------------------------------------------------------------
(* Configuration and requests *)

\* loadConfig: the fields the handlers read
Config(dryRun, jobSecret, webhookSecret, printify, handlerCode, maxOrdersPerRun) ==
  [loaded |-> TRUE,
   dryRun |-> dryRun,
   jobSecret |-> jobSecret,
   webhookSecret |-> webhookSecret,
   printifyEnabled |-> printify # "off",
   mockApi |-> printify = "mock",
   handlerCode |-> handlerCode,
   maxOrdersPerRun |-> maxOrdersPerRun]

NoConfig == [Config(FALSE, Null, Null, "off", Null, 0) EXCEPT !.loaded = FALSE]

UnreadBody ==
  [parsed |-> FALSE, json |-> FALSE, type |-> Null, status |-> Null, external_id |-> Null,
   shipments |-> <<>>]

NoRequest == [method |-> Null, secret |-> Null, signature |-> Null, body |-> UnreadBody]

\* the answers of the Order System to the login mutation
LoginAnswers == {"CurrentUser", "InvalidCredentialsError", "httpError"}

LoginAcceptedAlways(answer) == TRUE

\* login returns normally only for a CurrentUser; the log keeps the answer of each login
LoginAccepted(answer) == answer = "CurrentUser"

\* the message of the error login throws
LoginFailure(answer) ==
  IF answer = "httpError" THEN "Vendure login failed"
  ELSE "Invalid Vendure admin credentials."

\* the answers of the Order System to a transition or tracking mutation
MutationAnswers == {"Fulfillment", "ErrorResult"}

-----------------------------------------------------------------------------
(* Webhooks: what both implementations share *)

\* the orders the Order System holds, by code
WebhookOrderCodes == {"ORD-1", "ORD-2"}

OrderByCode(code) ==
  [id |-> code, code |-> code, state |-> "PaymentSettled",
   fulfillments |-> IF code = "ORD-1"
                      THEN <<[id |-> "F1", state |-> "Shipped", trackingCode |-> "T0"],
                             [id |-> "F2", state |-> "Pending", trackingCode |-> Null]>>
                      ELSE <<>>,
   lines |-> <<>>, shippingAddress |-> "address", email |-> Null]

NoOrder ==
  [id |-> Null, code |-> Null, state |-> Null, fulfillments |-> <<>>, lines |-> <<>>,
   shippingAddress |-> Null, email |-> Null]

NoShipment == [present |-> FALSE, carrier |-> Null, tracking_number |-> Null]
Shipment(carrier, tracking) == [present |-> TRUE, carrier |-> carrier, tracking_number |-> tracking]

\* shipments[0]
FirstShipment(shipments) == IF shipments = <<>> THEN NoShipment ELSE shipments[1]

IdleWh == [order |-> NoOrder, target |-> Null, shipment |-> NoShipment, fulfillmentId |-> Null]

EventTypes ==
  {Null, "order:sent-to-production", "order:shipment:created", "order:shipment:delivered",
   "Order:Shipped", "order:created"}

EventStatuses == {Null, "shipped"}

ExternalIds == {Null, "ORD-1", "ORD-2", "ORD-404"}

ShipmentLists ==
  {<<>>, <<Shipment("DHL", "T1")>>, <<Shipment("DHL", Null)>>, <<Shipment(Null, "T1")>>}

SignatureHeaders == {Null, "a1f0", "A1F0", "b2c3", "a1", "zzzz"}

SecretHeaders == {Null, "job-secret", "guess"}

\* createHmac('sha256', secret).update(rawBody).digest('hex'), shortened to two bytes
HmacSha256Hex(secret, rawBody) == "a1f0"

LookupCodeIsFirstOrder(body) == "ORD-1"

\* the order code given to fetchOrderByCode: the event's external_id
LookupCode(body) == body.external_id

LatestFulfillmentIsFirst(order) ==
  IF order.fulfillments = <<>> THEN Null ELSE order.fulfillments[1].id

\* order.fulfillments[order.fulfillments.length - 1]
LatestFulfillment(order) ==
  IF order.fulfillments = <<>> THEN Null ELSE order.fulfillments[Len(order.fulfillments)].id

-----------------------------------------------------------------------------
(* The printify-webhook endpoint *)

PRINTIFY_EVENT_MAP(event) ==
  CASE event = "order:sent-to-production" -> "Fulfilled"
    [] event = "order:shipment:created" -> "Shipped"
    [] event = "order:shipment:delivered" -> "Delivered"
    [] OTHER -> Null

\* crypto.timingSafeEqual: a RangeError when the lengths differ
TimingSafeEqual(a, b) ==
  IF Len(a) # Len(b) THEN "throws" ELSE IF a = b THEN "true" ELSE "false"

ApiVerifySignature(rawBody, secret, signature) ==
  IF ~Truthy(secret) THEN "true"
  ELSE IF ~Truthy(signature) THEN "false"
  ELSE TimingSafeEqual(BufferFromHex(Chars(HmacSha256Hex(secret, rawBody))),
                       BufferFromHex(Chars(signature)))

ApiConfigs ==
  {Config(dryRun, jobSecret, webhookSecret, "off", "manual-fulfillment", 1) :
     dryRun \in BOOLEAN, jobSecret \in {Null, "job-secret"}, webhookSecret \in {Null, "whsec"}}

ApiBodies ==
  [parsed : {TRUE}, json : {TRUE}, type : EventTypes, status : {Null},
   external_id : ExternalIds, shipments : ShipmentLists]
  \cup {[UnreadBody EXCEPT !.parsed = TRUE]}

\* the handler up to its first remote call: method, configuration, signature, payload, event
ApiReceive ==
  /\ pc = "idle"
  /\ entry' = "webhookApi"
  /\ \/ /\ req' = [NoRequest EXCEPT !.method = "GET"]
        /\ response' = Http(405, "Method not allowed")
        /\ pc' = "done"
        /\ UNCHANGED <<cfg, calls, wh>>
     \/ /\ req' = [NoRequest EXCEPT !.method = "POST"]
        /\ response' = Http(500, "loadConfig failed")
        /\ pc' = "done"
        /\ UNCHANGED <<cfg, calls, wh>>
     \/ \E config \in ApiConfigs, signature \in SignatureHeaders, bypassSecret \in SecretHeaders :
          LET hasBypass == Truthy(config.jobSecret) /\ Truthy(bypassSecret)
                             /\ bypassSecret = config.jobSecret
              verified == IF hasBypass THEN "true"
                          ELSE ApiVerifySignature("rawBody", config.webhookSecret, signature)
              heard == [NoRequest EXCEPT !.method = "POST", !.secret = bypassSecret,
                                         !.signature = signature]
          IN /\ cfg' = config
             /\ IF verified = "throws"
                  THEN /\ req' = heard
                       /\ response' = Rejected("RangeError")
                       /\ pc' = "done"
                       /\ UNCHANGED <<calls, wh>>
                  ELSE IF verified = "false"
                    THEN /\ req' = heard
                         /\ calls' = Append(calls, Notify("Printify webhook rejected"))
                         /\ response' = Http(401, "Invalid signature")
                         /\ pc' = "done"
                         /\ UNCHANGED wh
                    ELSE \E payload \in ApiBodies :
                           /\ req' = [heard EXCEPT !.body = payload]
                           /\ UNCHANGED calls
                           /\ IF ~payload.json
                                THEN /\ response' = Http(400, "Invalid JSON payload")
                                     /\ pc' = "done"
                                     /\ UNCHANGED wh
                                ELSE IF ~Truthy(payload.type) \/ ~Truthy(payload.external_id)
                                  THEN /\ response' = Http(400, "Missing event or external_id")
                                       /\ pc' = "done"
                                       /\ UNCHANGED wh
                                  ELSE IF PRINTIFY_EVENT_MAP(payload.type) = Null
                                    THEN /\ response' = Http(200, "ignored")
                                         /\ pc' = "done"
                                         /\ UNCHANGED wh
                                    ELSE /\ wh' = [IdleWh EXCEPT
                                                     !.target = PRINTIFY_EVENT_MAP(payload.type)]
                                         /\ pc' = "apiLogin"
                                         /\ UNCHANGED response
  /\ UNCHANGED <<tg, mapping, schema, orders, idx, canVendureFulfill, successCount, failures, dryRunNotes,
                 cf, calcOrder, calcResult>>

\* vendure.login; a failure is caught and answered 500
ApiLogin ==
  /\ pc = "apiLogin"
  /\ \E answer \in LoginAnswers :
       IF LoginAccepted(answer)
         THEN /\ calls' = Append(calls, Call("login", Null, answer))
              /\ pc' = "apiLookup"
              /\ UNCHANGED response
         ELSE /\ calls' = Append(calls, Call("login", Null, answer))
                            \o <<Notify("Printify webhook failed")>>
              /\ response' = Http(500, LoginFailure(answer))
              /\ pc' = "done"
  /\ UNCHANGED <<tg, mapping, entry, cfg, req, schema, orders, idx, canVendureFulfill, successCount,
                 failures, dryRunNotes, cf, wh, calcOrder, calcResult>>

\* vendure.fetchOrderByCode, then transitionFulfillments up to its first remote call
ApiLookup ==
  /\ pc = "apiLookup"
  /\ LET sent == Append(calls, Call("fetchOrderByCode", LookupCode(req.body), Null))
     IN \/ /\ calls' = Append(sent, Notify("Printify webhook failed"))
           /\ response' = Http(500, "Vendure request failed")
           /\ pc' = "done"
           /\ UNCHANGED wh
        \/ /\ LookupCode(req.body) \notin WebhookOrderCodes
           /\ calls' = Append(sent, Notify("Printify webhook skipped"))
           /\ response' = Http(404, "Order not found")
           /\ pc' = "done"
           /\ UNCHANGED wh
        \/ /\ LookupCode(req.body) \in WebhookOrderCodes
           /\ LET order == toOrderSummary(OrderByCode(LookupCode(req.body)))
                  latest == LatestFulfillment(order)
              IN /\ wh' = [wh EXCEPT !.order = order,
                                     !.shipment = FirstShipment(req.body.shipments),
                                     !.fulfillmentId = latest]
                 /\ IF latest = Null
                      THEN /\ calls' = Append(sent, Notify("Printify webhook processed"))
                           /\ response' = Http(200, "success")
                           /\ pc' = "done"
                      ELSE /\ calls' = sent
                           /\ pc' = "apiTransition"
                           /\ UNCHANGED response
  /\ UNCHANGED <<tg, mapping, entry, cfg, req, schema, orders, idx, canVendureFulfill, successCount,
                 failures, dryRunNotes, cf, calcOrder, calcResult>>

\* transitionFulfillments: vendure.transitionFulfillmentToState
ApiTransition ==
  /\ pc = "apiTransition"
  /\ LET sent == Append(calls, Call("transitionFulfillmentToState", wh.fulfillmentId, wh.target))
     IN \E answer \in MutationAnswers :
          IF answer # "Fulfillment"
            THEN /\ calls' = Append(sent, Notify("Printify webhook failed"))
                 /\ response' = Http(500, "Vendure transition failed")
                 /\ pc' = "done"
            ELSE IF Truthy(wh.shipment.tracking_number)
              THEN /\ calls' = sent
                   /\ pc' = "apiTracking"
                   /\ UNCHANGED response
              ELSE /\ calls' = Append(sent, Notify("Printify webhook processed"))
                   /\ response' = Http(200, "success")
                   /\ pc' = "done"
  /\ UNCHANGED <<tg, mapping, entry, cfg, req, schema, orders, idx, canVendureFulfill, successCount,
                 failures, dryRunNotes, cf, wh, calcOrder, calcResult>>

\* transitionFulfillments: vendure.updateFulfillmentTracking
ApiTracking ==
  /\ pc = "apiTracking"
  /\ LET sent == Append(calls, Call("updateFulfillmentTracking", wh.fulfillmentId,
                                    [trackingCode |-> wh.shipment.tracking_number,
                                     method |-> wh.shipment.carrier]))
     IN \E answer \in MutationAnswers :
          IF answer # "Fulfillment"
            THEN /\ calls' = Append(sent, Notify("Printify webhook failed"))
                 /\ response' = Http(500, "Vendure tracking update failed")
            ELSE /\ calls' = Append(sent, Notify("Printify webhook processed"))
                 /\ response' = Http(200, "success")
  /\ pc' = "done"
  /\ UNCHANGED <<tg, mapping, entry, cfg, req, schema, orders, idx, canVendureFulfill, successCount,
                 failures, dryRunNotes, cf, wh, calcOrder, calcResult>>

-----------------------------------------------------------------------------
(* handlePrintifyWebhook *)

mapEventToState(evt) ==
  LET t == ToLower(Chars(OrEmpty(evt.type)))
      s == ToLower(Chars(OrEmpty(evt.status)))
  IN IF Includes(t, Chars("delivered")) \/ s = Chars("delivered") THEN "Delivered"
     ELSE IF Includes(t, Chars("shipped")) \/ s = Chars("shipped") THEN "Shipped"
     ELSE IF Includes(t, Chars("fulfilled")) \/ s = Chars("fulfilled") THEN "Fulfilled"
     ELSE Null

\* verifySignature: lenient when anything is missing, and when require('crypto') throws
LibVerifySignature(secret, bodyRaw, signature, requireWorks) ==
  IF ~Truthy(secret) \/ ~Truthy(bodyRaw) \/ ~Truthy(signature) THEN TRUE
  ELSE IF requireWorks THEN HmacSha256Hex(secret, bodyRaw) = signature
  ELSE TRUE

Value(ok, message) == [kind |-> "value", ok |-> ok, message |-> message]

LibConfigs ==
  {Config(dryRun, Null, webhookSecret, "off", "manual-fulfillment", 1) :
     dryRun \in BOOLEAN, webhookSecret \in {Null, "whsec"}}

\* normalizeEvent: a body that is not JSON reads as the empty event
LibBodies ==
  [parsed : {TRUE}, json : {TRUE}, type : EventTypes, status : EventStatuses,
   external_id : ExternalIds, shipments : ShipmentLists]
  \cup {[UnreadBody EXCEPT !.parsed = TRUE]}

\* the function up to its first remote call: configuration, signature, event, target state
LibReceive ==
  /\ pc = "idle"
  /\ entry' = "webhookLib"
  /\ \E config \in LibConfigs, signature \in SignatureHeaders, requireWorks \in BOOLEAN :
       LET heard == [NoRequest EXCEPT !.signature = signature]
       IN /\ cfg' = config
          /\ IF ~LibVerifySignature(config.webhookSecret, "rawBody", OrEmpty(signature), requireWorks)
               THEN /\ req' = heard
                    /\ calls' = Append(calls, Notify("Printify webhook rejected"))
                    /\ response' = Value(FALSE, "Invalid signature")
                    /\ pc' = "done"
                    /\ UNCHANGED wh
               ELSE \E evt \in LibBodies :
                      /\ req' = [heard EXCEPT !.body = evt]
                      /\ wh' = [IdleWh EXCEPT !.target = mapEventToState(evt)]
                      /\ pc' = "libLogin"
                      /\ UNCHANGED <<calls, response>>
  /\ UNCHANGED <<tg, mapping, schema, orders, idx, canVendureFulfill, successCount, failures, dryRunNotes,
                 cf, calcOrder, calcResult>>

\* vendure.login (a failure rejects the promise), then the external_id check
LibLogin ==
  /\ pc = "libLogin"
  /\ \E answer \in LoginAnswers :
       LET sent == Append(calls, Call("login", Null, answer))
       IN IF ~LoginAccepted(answer)
            THEN /\ calls' = sent
                 /\ response' = Rejected(LoginFailure(answer))
                 /\ pc' = "done"
            ELSE IF ~Truthy(req.body.external_id)
              THEN /\ calls' = Append(sent, Notify("Printify webhook without external_id"))
                   /\ response' = Value(FALSE, "Missing external_id")
                   /\ pc' = "done"
              ELSE /\ calls' = sent
                   /\ pc' = "libLookup"
                   /\ UNCHANGED response
  /\ UNCHANGED <<tg, mapping, entry, cfg, req, schema, orders, idx, canVendureFulfill, successCount,
                 failures, dryRunNotes, cf, wh, calcOrder, calcResult>>

\* vendure.fetchOrderByCode, the fulfillment choice and the dry-run check
LibLookup ==
  /\ pc = "libLookup"
  /\ LET sent == Append(calls, Call("fetchOrderByCode", LookupCode(req.body), Null))
     IN \/ /\ calls' = sent
           /\ response' = Rejected("Vendure request failed")
           /\ pc' = "done"
           /\ UNCHANGED wh
        \/ /\ LookupCode(req.body) \notin WebhookOrderCodes
           /\ calls' = Append(sent, Notify("No order for webhook"))
           /\ response' = Value(FALSE, "Order not found")
           /\ pc' = "done"
           /\ UNCHANGED wh
        \/ /\ LookupCode(req.body) \in WebhookOrderCodes
           /\ LET order == toOrderSummary(OrderByCode(LookupCode(req.body)))
                  fulfillment == LatestFulfillment(order)
                  shipment == FirstShipment(req.body.shipments)
              IN /\ wh' = [wh EXCEPT !.order = order, !.shipment = shipment,
                                     !.fulfillmentId = fulfillment]
                 /\ IF fulfillment = Null
                      THEN /\ calls' = Append(sent, Notify("No fulfillment to update"))
                           /\ response' = Value(FALSE, "No fulfillment found")
                           /\ pc' = "done"
                      ELSE IF cfg.dryRun
                        THEN /\ calls' = Append(sent, Notify("Dry run: would update fulfillment"))
                             /\ response' = Value(TRUE, Null)
                             /\ pc' = "done"
                        ELSE IF wh.target = "Shipped"
                                /\ (Truthy(shipment.tracking_number) \/ Truthy(shipment.carrier))
                          THEN /\ calls' = sent
                               /\ pc' = "libTracking"
                               /\ UNCHANGED response
                          ELSE IF wh.target # Null
                            THEN /\ calls' = sent
                                 /\ pc' = "libTransition"
                                 /\ UNCHANGED response
                            ELSE /\ calls' = sent
                                 /\ response' = Value(TRUE, Null)
                                 /\ pc' = "done"
  /\ UNCHANGED <<tg, mapping, entry, cfg, req, schema, orders, idx, canVendureFulfill, successCount,
                 failures, dryRunNotes, cf, calcOrder, calcResult>>

\* vendure.updateFulfillmentTracking
LibTracking ==
  /\ pc = "libTracking"
  /\ LET sent == Append(calls, Call("updateFulfillmentTracking", wh.fulfillmentId,
                                    [trackingCode |-> wh.shipment.tracking_number,
                                     method |-> wh.shipment.carrier]))
     IN \E answer \in MutationAnswers :
          IF answer # "Fulfillment"
            THEN /\ calls' = sent
                 /\ response' = Rejected("Failed to update fulfillment tracking")
                 /\ pc' = "done"
            ELSE /\ calls' = Append(sent, Notify("Tracking updated"))
                 /\ pc' = "libTransition"
                 /\ UNCHANGED response
  /\ UNCHANGED <<tg, mapping, entry, cfg, req, schema, orders, idx, canVendureFulfill, successCount,
                 failures, dryRunNotes, cf, wh, calcOrder, calcResult>>

\* vendure.transitionFulfillmentToState
LibTransition ==
  /\ pc = "libTransition"
  /\ LET sent == Append(calls, Call("transitionFulfillmentToState", wh.fulfillmentId, wh.target))
     IN \E answer \in MutationAnswers :
          IF answer # "Fulfillment"
            THEN /\ calls' = sent
                 /\ response' = Rejected("Failed to transition fulfillment state")
            ELSE /\ calls' = Append(sent, Notify("Fulfillment state changed"))
                 /\ response' = Value(TRUE, Null)
  /\ pc' = "done"
  /\ UNCHANGED <<tg, mapping, entry, cfg, req, schema, orders, idx, canVendureFulfill, successCount,
                 failures, dryRunNotes, cf, wh, calcOrder, calcResult>>

-----------------------------------------------------------------------------
(* The batch runs: orders and configuration *)

OrderIds == <<"O1", "O2", "O3", "O4">>
OrderCodes == <<"ORD-1", "ORD-2", "ORD-3", "ORD-4">>

\* cfg.printify.productMapping: the SKUs that have an entry
ProductMapping == {"SKU-A", "SKU-B", "Mug"}

\* cfg.printify.productMapping[key]
MappingOf(key) ==
  CASE key = "SKU-A" -> [productId |-> 1, variantId |-> 11]
    [] key = "SKU-B" -> [productId |-> 2, variantId |-> 21]
    [] key = "Mug" -> [productId |-> 3, variantId |-> 31]

\* the kinds of order the Order System lists
OrderKinds ==
  {"ready", "authorized", "partial", "fulfilled", "unmapped", "noSku", "noAddress"}

\* the i-th item of the orders query, of kind `kind`
RawOrder(i, kind) ==
  [id |-> OrderIds[i],
   code |-> OrderCodes[i],
   state |-> CASE kind = "authorized" -> "PaymentAuthorized"
               [] kind = "partial" -> "PartiallyFulfilled"
               [] OTHER -> "PaymentSettled",
   fulfillments |-> IF kind \in {"ready", "authorized", "noAddress", "partial", "fulfilled"}
                      THEN <<[id |-> "F1", state |-> "Shipped", trackingCode |-> "T0"]>>
                      ELSE <<>>,
   lines |-> IF kind \in {"ready", "authorized", "noAddress"}
               THEN <<[id |-> "L1", quantity |-> 2, sku |-> "SKU-A", name |-> "Mug",
                       fulfillmentLines |-> <<Num(1)>>],
                      [id |-> "L2", quantity |-> 1, sku |-> "SKU-B", name |-> "Cap",
                       fulfillmentLines |-> <<Num(1)>>],
                      [id |-> "L3", quantity |-> 2, sku |-> "SKU-B", name |-> "Cap",
                       fulfillmentLines |-> <<>>]>>
               ELSE <<[id |-> "L1", quantity |-> 2,
                       sku |-> CASE kind = "unmapped" -> "SKU-X"
                                 [] kind = "noSku" -> Null
                                 [] OTHER -> "SKU-A",
                       name |-> "Mug",
                       fulfillmentLines |-> CASE kind = "partial" -> <<Num(1)>>
                                              [] kind = "fulfilled" -> <<Num(2)>>
                                              [] OTHER -> <<>>]>>,
   shippingAddress |-> IF kind = "noAddress" THEN Null ELSE "address",
   email |-> Null]

\* fetchOrders: the items are summarized, then filtered by state on the client
FilterByState(summaries, states) == SelectSeq(summaries, LAMBDA o : o.state \in states)

\* the answers of the Order System to the orders query with `take`
OrderItems(take) ==
  UNION {{[i \in 1..n |-> RawOrder(i, kinds[i])] : kinds \in [1..n -> OrderKinds]} : n \in 0..take}

STATES_TO_FULFILL == {"PaymentSettled", "PaymentAuthorized"}

CliStates == {"PaymentSettled", "PartiallyFulfilled"}

\* the configurations a batch run is started with
BatchConfigs ==
  {Config(dryRun, jobSecret, Null, printify, "printify-handler", MaxOrders) :
     dryRun \in BOOLEAN, jobSecret \in {"job-secret"}, printify \in {"off", "real", "mock"}}
  \cup {Config(TRUE, Null, Null, "off", "printify-handler", MaxOrders)}

NotifyOrder(step, code) == Call("notify", step, code)

Failure(code, reason) == [code |-> code, reason |-> reason]

Returned == [kind |-> "returned"]

\* the order the loop is at
Current == orders[idx]

ExternalIdIsOrderId(order) == order.id

\* external_id: order.code
ExternalId(order) == order.code

CountSuccessNever(n) == n

\* successCount += 1
CountSuccess(n) == n + 1

PrintifyNeverWanted == FALSE

\* a PrintifyClient exists: cfg.printify.enabled
PrintifyWanted == cfg.printifyEnabled

NextOrderIsTheSame(i) == i

\* for (const order of orders): the loop goes to the next order
NextOrder(i) == i + 1

AfterFailureEndsRun == "done"

\* continue: a failed order leaves the handler at the head of the loop
AfterFailure == "epOrder"

-----------------------------------------------------------------------------
(* The fulfill-orders endpoint *)

validateSecretAlways(provided, expected) == TRUE

validateSecret(provided, expected) == ~Truthy(expected) \/ provided = expected

\* the secret provided: the query parameter, or the header without one
ProvidedSecret(query, header) == IF Truthy(query) THEN query ELSE header

\* buildPrintifyLineItems of the endpoint: the SKUs (sku ?? '') without a mapping entry
EpMissingMapping(outstanding) ==
  \E i \in DOMAIN outstanding : OrEmpty(outstanding[i].sku) \notin ProductMapping

EpLineItemsReversed(outstanding) ==
  [i \in DOMAIN outstanding |->
     LET line == outstanding[Len(outstanding) + 1 - i]
     IN [productId |-> MappingOf(OrEmpty(line.sku)).productId,
         variantId |-> MappingOf(OrEmpty(line.sku)).variantId,
         quantity |-> line.quantity,
         metadata |-> [vendureOrderLineId |-> line.orderLineId,
                       sku |-> OrEmpty(line.sku),
                       variantName |-> line.variantName]]]

\* buildPrintifyLineItems of the endpoint: one item per outstanding line
EpLineItems(outstanding) ==
  [i \in DOMAIN outstanding |->
     [productId |-> MappingOf(OrEmpty(outstanding[i].sku)).productId,
      variantId |-> MappingOf(OrEmpty(outstanding[i].sku)).variantId,
      quantity |-> outstanding[i].quantity,
      metadata |-> [vendureOrderLineId |-> outstanding[i].orderLineId,
                    sku |-> OrEmpty(outstanding[i].sku),
                    variantName |-> outstanding[i].variantName]]]

\* the outer catch: the run ends with a 500
EpAbort(log, message) ==
  /\ calls' = Append(log, Notify("Tac vu giao hang that bai"))
  /\ response' = Http(500, message)
  /\ pc' = "done"

\* a failure of the order at hand: recorded, reported, and the loop goes on
EpFail(log, step, reason) ==
  /\ failures' = Append(failures, Failure(Current.code, reason))
  /\ calls' = Append(log, NotifyOrder(step, Current.code))
  /\ idx' = NextOrder(idx)
  /\ pc' = AfterFailure

\* from the canVendureFulfill check to the call of createFulfillment
EpToVendure(log) ==
  IF ~canVendureFulfill
    THEN /\ EpFail(log, "Order fulfillment skipped",
                   <<"Vendure Admin API does not support createFulfillment">>)
         /\ UNCHANGED cf
    ELSE /\ calls' = log
         /\ cf' = [IdleCf EXCEPT !.input =
                     [orderId |-> Current.id,
                      lines |-> LinesForVendure(getOutstandingFulfillmentLines(Current)),
                      handlerCode |-> cfg.handlerCode,
                      method |-> "printify",
                      trackingCode |-> Null,
                      customFields |-> Null]]
         /\ pc' = "cfIntrospect"
         /\ UNCHANGED <<failures, idx>>

EpReceive ==
  /\ pc = "idle"
  /\ entry' = "endpoint"
  /\ \E method \in {"POST", "GET"} :
       IF method # "POST"
         THEN /\ req' = [req EXCEPT !.method = method]
              /\ response' = Http(405, "Method not allowed. Use POST.")
              /\ pc' = "done"
              /\ UNCHANGED <<cfg, calls>>
         ELSE \/ /\ req' = [req EXCEPT !.method = method]
                 /\ response' = Http(500, "loadConfig")
                 /\ pc' = "done"
                 /\ UNCHANGED <<cfg, calls>>
              \/ \E config \in BatchConfigs, query \in SecretHeaders, header \in SecretHeaders :
                   /\ cfg' = config
                   /\ req' = [req EXCEPT !.method = method,
                                         !.secret = IF Truthy(config.jobSecret)
                                                      THEN ProvidedSecret(query, header)
                                                      ELSE Null]
                   /\ IF ~validateSecret(ProvidedSecret(query, header), config.jobSecret)
                        THEN /\ response' = Http(401, "Invalid or missing automation secret.")
                             /\ pc' = "done"
                             /\ UNCHANGED calls
                        ELSE /\ calls' = Append(calls, Notify("Fulfillment job starting"))
                             /\ pc' = "epLogin"
                             /\ UNCHANGED response
  /\ UNCHANGED <<tg, mapping, schema, orders, idx, canVendureFulfill, successCount, failures, dryRunNotes,
                 cf, wh, calcOrder, calcResult>>

EpLogin ==
  /\ pc = "epLogin"
  /\ \E answer \in LoginAnswers :
       LET log == Append(calls, Call("login", Null, answer))
       IN IF LoginAccepted(answer)
            THEN calls' = log /\ pc' = "epProbe" /\ UNCHANGED response
            ELSE EpAbort(log, LoginFailure(answer))
  /\ UNCHANGED <<tg, mapping, entry, cfg, req, schema, orders, idx, canVendureFulfill, successCount,
                 failures, dryRunNotes, cf, wh, calcOrder, calcResult>>

SupportsCreationAlways(names) == TRUE

SupportsOnFailureAssumed == TRUE

\* catch { return false }
SupportsOnFailure == FALSE

\* names.includes('createFulfillment') || names.includes('addFulfillmentToOrder')
SupportsCreation(names) == names \cap CreationOps # {}

\* supportsCreateFulfillment, and the notice when it answers false
EpProbe ==
  /\ pc = "epProbe"
  /\ LET log == Append(calls, Call("introspect", Null, Null))
         unsupported == Append(log, Notify("Vendure fulfillment unsupported on current Admin API"))
     IN \/ /\ canVendureFulfill' = SupportsOnFailure
           /\ calls' = IF SupportsOnFailure THEN log ELSE unsupported
           /\ UNCHANGED schema
        \/ \E names \in SchemaAnswers :
             /\ schema' = [known |-> TRUE, names |-> names]
             /\ canVendureFulfill' = SupportsCreation(names)
             /\ calls' = IF SupportsCreation(names) THEN log ELSE unsupported
  /\ pc' = "epFetch"
  /\ UNCHANGED <<tg, mapping, entry, cfg, req, orders, idx, successCount, failures, dryRunNotes, cf, wh,
                 response, calcOrder, calcResult>>

EpFetch ==
  /\ pc = "epFetch"
  /\ LET log == Append(calls, Call("fetchOrders", Null, cfg.maxOrdersPerRun))
     IN \/ EpAbort(log, "Vendure request failed") /\ UNCHANGED <<orders, idx>>
        \/ \E items \in OrderItems(cfg.maxOrdersPerRun) :
             LET fetched == FilterByState([i \in DOMAIN items |-> toOrderSummary(items[i])],
                                          STATES_TO_FULFILL)
             IN /\ orders' = fetched
                /\ IF fetched = <<>>
                     THEN /\ calls' = Append(log, Notify("Fulfillment job completed"))
                          /\ response' = Http(200, "No eligible orders found.")
                          /\ pc' = "done"
                          /\ UNCHANGED idx
                     ELSE /\ calls' = log
                          /\ idx' = 1
                          /\ pc' = "epOrder"
                          /\ UNCHANGED response
  /\ UNCHANGED <<tg, mapping, entry, cfg, req, schema, canVendureFulfill, successCount, failures,
                 dryRunNotes, cf, wh, calcOrder, calcResult>>

\* the loop body up to its first remote call
EpOrder ==
  /\ pc = "epOrder"
  /\ idx <= Len(orders)
  /\ LET outstanding == getOutstandingFulfillmentLines(Current)
     IN IF outstanding = <<>>
          THEN /\ idx' = NextOrder(idx)
               /\ UNCHANGED <<pc, calls, failures, dryRunNotes, cf>>
          ELSE IF cfg.dryRun
            THEN /\ dryRunNotes' = Append(dryRunNotes, Current.code)
                 /\ idx' = NextOrder(idx)
                 /\ UNCHANGED <<pc, calls, failures, cf>>
            ELSE IF PrintifyWanted
              THEN IF Current.shippingAddress = Null
                     THEN /\ EpFail(calls, "Printify order creation failed",
                                    <<"Order missing shipping address">>)
                          /\ UNCHANGED <<dryRunNotes, cf>>
                     ELSE IF EpMissingMapping(outstanding)
                       THEN /\ EpFail(calls, "Printify order creation failed",
                                      <<"Missing PRINTIFY_PRODUCT_MAPPING entry for SKU">>)
                            /\ UNCHANGED <<dryRunNotes, cf>>
                       ELSE /\ pc' = "epPrintify"
                            /\ UNCHANGED <<calls, idx, failures, dryRunNotes, cf>>
              ELSE EpToVendure(calls) /\ UNCHANGED dryRunNotes
  /\ UNCHANGED <<tg, mapping, entry, cfg, req, schema, orders, canVendureFulfill, successCount, wh,
                 response, calcOrder, calcResult>>

\* printify.createOrder, whose client is a mock when mockApi or dryRun is set
EpPrintify ==
  /\ pc = "epPrintify"
  /\ LET mock == cfg.mockApi \/ cfg.dryRun
         log == IF mock THEN calls
                        ELSE Append(calls, Call("printifyCreateOrder", ExternalId(Current),
                                                EpLineItems(getOutstandingFulfillmentLines(Current))))
     IN \/ /\ ~mock
           /\ EpFail(log, "Printify order creation failed", <<"Printify request failed">>)
           /\ UNCHANGED cf
        \/ EpToVendure(Append(log, NotifyOrder("Printify order created", Current.code)))
  /\ UNCHANGED <<tg, mapping, entry, cfg, req, schema, orders, canVendureFulfill, successCount,
                 dryRunNotes, wh, response, calcOrder, calcResult>>

\* createFulfillment returns or throws to the loop body
EpAfterCreate ==
  /\ pc = "cfReturn"
  /\ entry = "endpoint"
  /\ IF cf.result.kind = "threw"
       THEN /\ EpFail(calls, "Order fulfillment failed", <<cf.result.message>>)
            /\ UNCHANGED successCount
       ELSE IF cf.result.success
         THEN /\ successCount' = CountSuccess(successCount)
              /\ calls' = Append(calls, NotifyOrder("Order fulfilled", Current.code))
              /\ idx' = NextOrder(idx)
              /\ pc' = "epOrder"
              /\ UNCHANGED failures
         ELSE /\ EpFail(calls, "Order fulfillment failed", cf.result.message)
              /\ UNCHANGED successCount
  /\ UNCHANGED <<tg, mapping, entry, cfg, req, schema, orders, canVendureFulfill, dryRunNotes, cf, wh,
                 response, calcOrder, calcResult>>

\* after the loop
EpFinish ==
  /\ pc = "epOrder"
  /\ idx > Len(orders)
  /\ IF cfg.dryRun
       THEN /\ calls' = Append(calls, Notify("Fulfillment job completed (dry-run)"))
            /\ response' = Http(200, "dryRun")
       ELSE /\ calls' = Append(calls, Notify("Hoan thanh tac vu giao hang"))
            /\ response' = Http(200, "updatedOrders")
  /\ pc' = "done"
  /\ UNCHANGED <<tg, mapping, entry, cfg, req, schema, orders, idx, canVendureFulfill, successCount,
                 failures, dryRunNotes, cf, wh, calcOrder, calcResult>>

-----------------------------------------------------------------------------
(* runFulfillOrders *)

\* the SKUs (sku ?? variantName) without a mapping entry
CliMissingSkus(outstanding) ==
  SelectSeq([i \in DOMAIN outstanding |->
               IF outstanding[i].sku = Null THEN outstanding[i].variantName
                                            ELSE outstanding[i].sku],
            LAMBDA sku : sku \notin ProductMapping)

\* buildPrintifyLineItems of runFulfillOrders: one item per outstanding line
CliLineItems(order) ==
  LET outstanding == getOutstandingFulfillmentLines(order)
      key(line) == IF line.sku = Null THEN line.variantName ELSE line.sku
  IN [i \in DOMAIN outstanding |->
        [productId |-> MappingOf(key(outstanding[i])).productId,
         variantId |-> MappingOf(key(outstanding[i])).variantId,
         quantity |-> outstanding[i].quantity]]

\* fulfillOrder returns, or throws into the catch of the loop, which reports it
CliNext(log) ==
  /\ calls' = log
  /\ idx' = NextOrder(idx)
  /\ pc' = "cliOrder"

\* from the dry-run check of fulfillOrder to the call of createFulfillment
CliToVendure(log, printifyOrderId) ==
  IF cfg.dryRun
    THEN /\ CliNext(Append(log, NotifyOrder("Dry-run: would create Vendure fulfillment",
                                            Current.code)))
         /\ UNCHANGED cf
    ELSE /\ calls' = Append(log, NotifyOrder("Create Vendure fulfillment", Current.code))
         /\ cf' = [IdleCf EXCEPT !.input =
                     [orderId |-> Current.id,
                      lines |-> LinesForVendure(getOutstandingFulfillmentLines(Current)),
                      handlerCode |-> cfg.handlerCode,
                      method |-> IF Truthy(printifyOrderId) THEN "Printify" ELSE "Manual",
                      trackingCode |-> Null,
                      customFields |-> Null]]
         /\ pc' = "cfIntrospect"
         /\ UNCHANGED idx

\* loadConfig and the login, both outside the try
CliStart ==
  /\ pc = "idle"
  /\ entry' = "cli"
  /\ \/ /\ response' = Rejected("loadConfig")
        /\ pc' = "done"
        /\ UNCHANGED <<cfg, calls>>
     \/ \E config \in BatchConfigs, answer \in LoginAnswers :
          /\ cfg' = config
          /\ IF LoginAccepted(answer)
               THEN /\ calls' = <<Call("login", Null, answer), Notify("Bat dau chay xu ly giao hang")>>
                    /\ pc' = "cliFetch"
                    /\ UNCHANGED response
               ELSE /\ calls' = <<Call("login", Null, answer)>>
                    /\ response' = Rejected(LoginFailure(answer))
                    /\ pc' = "done"
  /\ UNCHANGED <<tg, mapping, req, schema, orders, idx, canVendureFulfill, successCount, failures,
                 dryRunNotes, cf, wh, calcOrder, calcResult>>

CliFetch ==
  /\ pc = "cliFetch"
  /\ LET log == Append(calls, Call("fetchOrders", Null, cfg.maxOrdersPerRun))
     IN \/ /\ calls' = Append(log, Notify("Chay xu ly giao hang that bai"))
           /\ response' = Rejected("Vendure request failed")
           /\ pc' = "done"
           /\ UNCHANGED <<orders, idx>>
        \/ \E items \in OrderItems(cfg.maxOrdersPerRun) :
             /\ orders' = FilterByState([i \in DOMAIN items |-> toOrderSummary(items[i])],
                                        CliStates)
             /\ calls' = log
             /\ idx' = 1
             /\ pc' = "cliOrder"
             /\ UNCHANGED response
  /\ UNCHANGED <<tg, mapping, entry, cfg, req, schema, canVendureFulfill, successCount, failures,
                 dryRunNotes, cf, wh, calcOrder, calcResult>>

\* fulfillOrder up to its first remote call
CliOrder ==
  /\ pc = "cliOrder"
  /\ idx <= Len(orders)
  /\ LET outstanding == getOutstandingFulfillmentLines(Current)
     IN IF outstanding = <<>>
          THEN /\ CliNext(Append(calls, NotifyOrder("Skip order", Current.code)))
               /\ UNCHANGED cf
          ELSE IF PrintifyWanted
            THEN IF CliMissingSkus(outstanding) # <<>>
                   THEN /\ CliNext(Append(calls, NotifyOrder("Thieu mapping Printify cho order",
                                                             Current.code)))
                        /\ UNCHANGED cf
                   ELSE /\ calls' = Append(calls, NotifyOrder("Create Printify draft order",
                                                              Current.code))
                        /\ pc' = "cliPrintify"
                        /\ UNCHANGED <<idx, cf>>
            ELSE CliToVendure(calls, Null)
  /\ UNCHANGED <<tg, mapping, entry, cfg, req, schema, orders, canVendureFulfill, successCount, failures,
                 dryRunNotes, wh, response, calcOrder, calcResult>>

\* printify.createOrder, whose client is a mock only when mockApi is set
CliPrintify ==
  /\ pc = "cliPrintify"
  /\ LET mock == cfg.mockApi
         log == IF mock THEN calls
                        ELSE Append(calls, Call("printifyCreateOrder", ExternalId(Current),
                                                CliLineItems(Current)))
     IN \/ /\ ~mock
           /\ CliNext(Append(log, NotifyOrder("Loi khi xu ly don hang", Current.code)))
           /\ UNCHANGED cf
        \/ CliToVendure(Append(log, NotifyOrder("Printify draft order created", Current.code)),
                        "printify-id")
  /\ UNCHANGED <<tg, mapping, entry, cfg, req, schema, orders, canVendureFulfill, successCount, failures,
                 dryRunNotes, wh, response, calcOrder, calcResult>>

\* createFulfillment returns or throws to fulfillOrder
CliAfterCreate ==
  /\ pc = "cfReturn"
  /\ entry = "cli"
  /\ IF cf.result.kind = "value" /\ cf.result.success
       THEN CliNext(Append(calls, NotifyOrder("Vendure fulfillment created", Current.code)))
       ELSE CliNext(Append(calls, NotifyOrder("Loi khi xu ly don hang", Current.code)))
  /\ UNCHANGED <<tg, mapping, entry, cfg, req, schema, orders, canVendureFulfill, successCount, failures,
                 dryRunNotes, cf, wh, response, calcOrder, calcResult>>

\* after the loop
CliFinish ==
  /\ pc = "cliOrder"
  /\ idx > Len(orders)
  /\ calls' = Append(calls, Notify("Hoan thanh chay xu ly giao hang"))
  /\ response' = Returned
  /\ pc' = "done"
  /\ UNCHANGED <<tg, mapping, entry, cfg, req, schema, orders, idx, canVendureFulfill, successCount,
                 failures, dryRunNotes, cf, wh, calcOrder, calcResult>>

-----------------------------------------------------------------------------
(* TelegramReporter *)

\* the step titles given to notify
NotifySteps ==
  {"Fulfillment job starting", "Fulfillment job completed", "Order fulfilled",
   "Order fulfillment failed", "Printify order created", "Printify order creation failed",
   "Printify webhook rejected", "Order fulfillment skipped"}

NotifyDetails == {Null, "Order ORD-1"}

\* what becomes of the sendMessage request
Deliveries == {"ok", "notOk", "networkError"}

IdleTg ==
  [enabled |-> FALSE, dryRun |-> FALSE, step |-> Null, details |-> Null, delivery |-> "none",
   logged |-> FALSE]

NotifyOutcomeRaises(delivery) ==
  IF delivery \in {"notOk", "networkError"} THEN Rejected("Telegram request error") ELSE Returned

\* postMessage logs a failed delivery and returns; notify returns what it returns
NotifyOutcome(delivery) == Returned

\* notify: the message is built and given to postMessage
TgNotify ==
  /\ pc = "idle"
  /\ entry' = "notify"
  /\ \E enabled \in BOOLEAN, dryRun \in BOOLEAN, step \in NotifySteps, details \in NotifyDetails :
       tg' = [IdleTg EXCEPT !.enabled = enabled, !.dryRun = dryRun, !.step = step,
                            !.details = details]
  /\ pc' = "postMessage"
  /\ UNCHANGED <<mapping, cfg, req, schema, calls, orders, idx, canVendureFulfill, successCount,
                 failures, dryRunNotes, cf, wh, response, calcOrder, calcResult>>

\* postMessage: nothing is sent when disabled; a failed delivery is logged
TgPostMessage ==
  /\ pc = "postMessage"
  /\ IF ~tg.enabled
       THEN /\ tg' = [tg EXCEPT !.delivery = "disabled"]
            /\ response' = NotifyOutcome("disabled")
            /\ UNCHANGED calls
       ELSE \E delivery \in Deliveries :
              /\ calls' = Append(calls, Call("sendMessage", tg.step, tg.details))
              /\ tg' = [tg EXCEPT !.delivery = delivery, !.logged = delivery # "ok"]
              /\ response' = NotifyOutcome(delivery)
  /\ pc' = "done"
  /\ UNCHANGED <<mapping, entry, cfg, req, schema, orders, idx, canVendureFulfill, successCount,
                 failures, dryRunNotes, cf, wh, calcOrder, calcResult>>

-----------------------------------------------------------------------------
(* The calculator on its own *)

\* the fulfillmentLines a raw order line can carry
FulfillmentLineLists ==
  {<<>>, <<Num(1)>>, <<Num(1), Num(2)>>, <<NaN, Num(1)>>}

RawLines == [quantity : 0..MaxQty, sku : {Null, "SKU-A"}, fulfillmentLines : FulfillmentLineLists]

RawOrderOf(ls) ==
  [id |-> "O1", code |-> "ORD-1", state |-> "PaymentSettled", fulfillments |-> <<>>,
   lines |-> [i \in DOMAIN ls |->
                [id |-> i, quantity |-> ls[i].quantity, sku |-> ls[i].sku, name |-> "Mug",
                 fulfillmentLines |-> ls[i].fulfillmentLines]],
   shippingAddress |-> "address", email |-> Null]

Calculate ==
  /\ pc = "idle"
  /\ \E n \in 0..MaxLines : \E ls \in [1..n -> RawLines] :
       /\ calcOrder' = toOrderSummary(RawOrderOf(ls))
       /\ calcResult' = getOutstandingFulfillmentLines(toOrderSummary(RawOrderOf(ls)))
  /\ entry' = "calc"
  /\ pc' = "done"
  /\ UNCHANGED <<tg, mapping, cfg, req, schema, calls, orders, idx, canVendureFulfill, successCount,
                 failures, dryRunNotes, cf, wh, response>>

\* a second call with the order of the first: the function assigns to nothing of its
\* argument
CalculateAgain ==
  /\ pc = "done"
  /\ entry = "calc"
  /\ calcResult' = getOutstandingFulfillmentLines(calcOrder)
  /\ pc' = "again"
  /\ UNCHANGED <<tg, mapping, entry, cfg, req, schema, calls, orders, idx, canVendureFulfill,
                 successCount, failures, dryRunNotes, cf, wh, response, calcOrder>>

-----------------------------------------------------------------------------
(* loadConfig: the Printify product mapping *)

MaxRows == 3        \* lines of a mapping source

MappingKeys == {"", "sku", "SKU-A", "SKU-B"}

NoEntry == [present |-> FALSE, productId |-> 0, variantId |-> 0]

Entry(productId, variantId) ==
  [present |-> TRUE, productId |-> productId, variantId |-> variantId]

EmptyMapping == [key \in MappingKeys |-> NoEntry]

Loaded(map) == [kind |-> "loaded", map |-> map]

\* a line of the source: a CSV line split at the commas (header: it matches /sku/i,
\* /product/i and /variant/i), or a key of the JSON object with its value
HeaderLine == [header |-> TRUE, parts |-> 3, sku |-> "sku", productId |-> NaN, variantId |-> NaN]

SourceLines ==
  {HeaderLine}
  \cup [header : {FALSE}, parts : {2}, sku : {"SKU-A"}, productId : {Num(1)}, variantId : {NaN}]
  \cup [header : {FALSE}, parts : {3}, sku : {"", "SKU-A", "SKU-B"},
        productId : {Num(1), Num(2), NaN}, variantId : {Num(11)}]

\* loadMappingFromCsv: the loop over the lines, from line i on
RECURSIVE CsvFrom(_, _, _)
CsvFrom(lines, i, map) ==
  IF i > Len(lines) THEN Loaded(map)
  ELSE LET line == lines[i]
       IN IF i = 1 /\ line.header THEN CsvFrom(lines, i + 1, map)
          ELSE IF line.parts < 3 THEN Threw("Invalid CSV format")
          ELSE IF line.sku = "" THEN Threw("missing sku")
          ELSE IF ~line.productId.num \/ ~line.variantId.num
            THEN Threw("productId and variantId must be numbers")
          ELSE CsvFrom(lines, i + 1,
                       [map EXCEPT ![line.sku] = Entry(line.productId.val, line.variantId.val)])

loadMappingFromCsv(lines) == CsvFrom(lines, 1, EmptyMapping)

\* JSON.parse of an object: a key given again replaces the value it had
RECURSIVE JsonParse(_, _)
JsonParse(lines, parsed) ==
  IF lines = <<>> THEN parsed
  ELSE JsonParse(Tail(lines),
                 [parsed EXCEPT ![Head(lines).sku] =
                    [present |-> TRUE, productId |-> Head(lines).productId,
                     variantId |-> Head(lines).variantId]])

\* the validation loop of loadConfig: entries whose ids are not numbers are left out
loadMappingFromJson(lines) ==
  LET parsed == JsonParse(lines, [key \in MappingKeys |-> [present |-> FALSE, productId |-> NaN,
                                                           variantId |-> NaN]])
  IN Loaded([key \in MappingKeys |->
               IF parsed[key].present /\ parsed[key].productId.num /\ parsed[key].variantId.num
                 THEN Entry(parsed[key].productId.val, parsed[key].variantId.val)
                 ELSE NoEntry])

\* loadConfig, from the choice of the source to the check of an empty mapping
loadProductMapping(source, lines, printifyEnabled) ==
  LET result == IF source = "csv" THEN loadMappingFromCsv(lines) ELSE loadMappingFromJson(lines)
  IN IF result.kind = "threw" THEN result
     ELSE IF printifyEnabled /\ result.map = EmptyMapping
       THEN Threw("Printify product mapping is required")
     ELSE result

IdleMapping == [source |-> Null, lines |-> <<>>, printifyEnabled |-> FALSE, result |-> NoResult]

\* loadConfig reads the mapping source of the environment
LoadMapping ==
  /\ pc = "idle"
  /\ \E source \in {"csv", "json"}, n \in 0..MaxRows, printifyEnabled \in BOOLEAN :
       \E lines \in [1..n -> SourceLines] :
         mapping' = [source |-> source, lines |-> lines, printifyEnabled |-> printifyEnabled,
                     result |-> loadProductMapping(source, lines, printifyEnabled)]
  /\ entry' = "config"
  /\ pc' = "done"
  /\ UNCHANGED <<tg, cfg, req, schema, calls, orders, idx, canVendureFulfill, successCount,
                 failures, dryRunNotes, cf, wh, response, calcOrder, calcResult>>

-----------------------------------------------------------------------------
(* Specifications *)

Init ==
  /\ entry = "none"
  /\ pc = "idle"
  /\ cfg = NoConfig
  /\ req = NoRequest
  /\ schema = UnknownSchema
  /\ calls = <<>>
  /\ orders = <<>>
  /\ idx = 0
  /\ canVendureFulfill = FALSE
  /\ successCount = 0
  /\ failures = <<>>
  /\ dryRunNotes = <<>>
  /\ cf = IdleCf
  /\ wh = IdleWh
  /\ response = NoResponse
  /\ tg = IdleTg
  /\ mapping = IdleMapping
  /\ calcOrder = toOrderSummary(RawOrderOf(<<>>))
  /\ calcResult = <<>>

\* one call of VendureClient.createFulfillment
NextCreate == CallCreateFulfillment \/ CfIntrospect \/ CfFirst \/ CfRetry \/ CreateReturn

SpecCreate == Init /\ [][NextCreate]_vars

\* one event given to either webhook implementation
NextWebhook ==
  \/ ApiReceive \/ ApiLogin \/ ApiLookup \/ ApiTransition \/ ApiTracking
  \/ LibReceive \/ LibLogin \/ LibLookup \/ LibTracking \/ LibTransition

SpecWebhook == Init /\ [][NextWebhook]_vars

\* one batch run, by the endpoint or by runFulfillOrders
NextBatch ==
  \/ EpReceive \/ EpLogin \/ EpProbe \/ EpFetch \/ EpOrder \/ EpPrintify \/ EpAfterCreate
  \/ EpFinish
  \/ CliStart \/ CliFetch \/ CliOrder \/ CliPrintify \/ CliAfterCreate \/ CliFinish
  \/ CfIntrospect \/ CfFirst \/ CfRetry

SpecBatch == Init /\ [][NextBatch]_vars

\* every entry point that logs in to the Order System: the two batch runs and the two
\* webhook handlers
NextInvocation == NextBatch \/ NextWebhook

SpecInvocation == Init /\ [][NextInvocation]_vars

\* one notification
NextNotify == TgNotify \/ TgPostMessage

SpecNotify == Init /\ [][NextNotify]_vars

\* a call of the calculator, and a second call on the same order
NextCalc == Calculate \/ CalculateAgain

SpecCalc == Init /\ [][NextCalc]_vars

\* one call of loadConfig
NextConfig == LoadMapping

SpecConfig == Init /\ [][NextConfig]_vars

-----------------------------------------------------------------------------
(* Properties *)

\* the running createFulfillment call has returned or thrown
CallFinished == cf.result.kind # "none"

\* the invalid-handler pattern of the fulfillment-creation protocol
MatchesInvalidHandler(result) ==
  \/ RegexTestI("INVALID_FULFILLMENT_HANDLER", OrEmpty(result.errorCode))
  \/ RegexTestI("InvalidFulfillmentHandler", OrEmpty(result.message))

StructuredError(result) == result.typename \notin {"none", "Fulfillment"}

\* the variables of a creation mutation with only the handler code replaced
WithHandlerCode(op, arg, code) ==
  IF op = "createFulfillment"
    THEN [arg EXCEPT !.handlerCode = code]
    ELSE [arg EXCEPT !.handler.code = code]

\* the creation mutations sent by the createFulfillment call that is running or last ran
CallCreations ==
  SelectSeq(calls, LAMBDA c : c.op \in CreationOps /\ c.target = cf.input.orderId)

\* what createFulfillment returns for an answer of the Order System
ReturnsResultOf(answer) ==
  /\ cf.result.kind = "value"
  /\ IF answer.typename = "Fulfillment"
       THEN /\ cf.result.success
            /\ cf.result.fulfillmentId = answer.id
            /\ cf.result.state = answer.state
       ELSE ~cf.result.success

\* C1: when the first creation mutation of a createFulfillment call is answered with a
\* structured error matching the invalid-handler pattern, exactly one more creation
\* mutation is sent, of the same shape, with handler code manual-fulfillment and every
\* other field as in the first, and its result is what the call returns; a call never
\* sends a third creation mutation.
C1_RetryOnceWithFallback ==
  /\ Len(CallCreations) <= 2
  /\ (CallFinished /\ StructuredError(cf.first) /\ MatchesInvalidHandler(cf.first)) =>
       /\ Len(CallCreations) = 2
       /\ CallCreations[2].op = CallCreations[1].op
       /\ CallCreations[2].target = CallCreations[1].target
       /\ CallCreations[2].arg =
            WithHandlerCode(CallCreations[1].op, CallCreations[1].arg, "manual-fulfillment")
       /\ (cf.retry # NoAnswer => ReturnsResultOf(cf.retry))
       /\ (cf.retry = NoAnswer => cf.result.kind = "threw")

\* a call that was given another handler code and a tracking code, answered
\* INVALID_FULFILLMENT_HANDLER, has retried on the older mutation shape and returned
C1_Witness ==
  /\ CallFinished
  /\ cf.first.errorCode = "INVALID_FULFILLMENT_HANDLER"
  /\ cf.input.handlerCode = "printify-handler"
  /\ cf.input.trackingCode = "T1"
  /\ cf.shape = "addFulfillmentToOrder"
  /\ Len(CallCreations) = 2
  /\ cf.retry.typename = "Fulfillment"

\* C2: when the first creation mutation is answered with a structured error that does
\* not match the invalid-handler pattern, no further creation mutation is sent and the
\* call returns success false with that error's message and transition error; a retry
\* answered with a structured error returns success false and is not retried.
C2_OtherErrorNotRetried ==
  /\ (CallFinished /\ StructuredError(cf.first) /\ ~MatchesInvalidHandler(cf.first)) =>
       /\ Len(CallCreations) = 1
       /\ cf.result.kind = "value"
       /\ ~cf.result.success
       /\ LET parts == SelectSeq(<<cf.first.message, cf.first.transitionError>>, Truthy)
          IN parts # <<>> => cf.result.message = parts
  /\ (CallFinished /\ StructuredError(cf.retry)) =>
       /\ Len(CallCreations) = 2
       /\ cf.result.kind = "value"
       /\ ~cf.result.success

\* a call answered with an order-state transition error has returned its two messages
C2_Witness ==
  /\ CallFinished
  /\ cf.first.typename = "OrderStateTransitionError"
  /\ cf.result.kind = "value"
  /\ cf.result.message = <<"Cannot transition order", "Order not ready">>
  /\ Len(CallCreations) = 1

RECURSIVE SumQuantity(_)
SumQuantity(lines) ==
  IF lines = <<>> THEN 0 ELSE Head(lines).quantity + SumQuantity(Tail(lines))

RECURSIVE SumFulfilled(_)
SumFulfilled(lines) ==
  IF lines = <<>> THEN 0 ELSE Head(lines).fulfilledQuantity + SumFulfilled(Tail(lines))

RECURSIVE SumPositiveOutstanding(_)
SumPositiveOutstanding(lines) ==
  IF lines = <<>> THEN 0
  ELSE (IF Head(lines).quantity > Head(lines).fulfilledQuantity
          THEN Head(lines).quantity - Head(lines).fulfilledQuantity ELSE 0)
       + SumPositiveOutstanding(Tail(lines))

Calculated == entry = "calc" /\ pc = "done"

\* C4 as stated: the calculator returns only lines with a quantity above 0, and their
\* quantities add up to sum(quantity) - sum(fulfilledQuantity) over all lines of the order.
C4_SumIsTotalDifference ==
  Calculated =>
    /\ \A i \in DOMAIN calcResult : calcResult[i].quantity > 0
    /\ SumQuantity(calcResult) = SumQuantity(calcOrder.lines) - SumFulfilled(calcOrder.lines)

\* C4 amended: the calculator returns only lines with a quantity above 0, and their
\* quantities add up to the sum over the order's lines of max(0, quantity - fulfilledQuantity),
\* which is sum(quantity) - sum(fulfilledQuantity) when no line has fulfilledQuantity
\* above quantity.
C4_SumIsPositiveDifferences ==
  Calculated =>
    /\ \A i \in DOMAIN calcResult : calcResult[i].quantity > 0
    /\ SumQuantity(calcResult) = SumPositiveOutstanding(calcOrder.lines)
    /\ (\A i \in DOMAIN calcOrder.lines :
           calcOrder.lines[i].fulfilledQuantity <= calcOrder.lines[i].quantity) =>
         SumQuantity(calcResult) = SumQuantity(calcOrder.lines) - SumFulfilled(calcOrder.lines)

\* an order with one line fulfilled beyond its quantity and one partly fulfilled line
C4_Witness ==
  /\ Calculated
  /\ Len(calcOrder.lines) = 2
  /\ calcOrder.lines[1].fulfilledQuantity > calcOrder.lines[1].quantity
  /\ calcOrder.lines[2].fulfilledQuantity = 1
  /\ calcOrder.lines[2].quantity = 2
  /\ Len(calcResult) = 1
  /\ calcResult[1].quantity = 1

\* the tracking updates and state transitions sent, in order
WebhookMutations ==
  SelectSeq(calls, LAMBDA c : c.op \in {"updateFulfillmentTracking", "transitionFulfillmentToState"})

\* a call to the Order System other than a notification
OrderSystemCalls ==
  SelectSeq(calls, LAMBDA c : c.op \in {"login", "introspect", "fetchOrders", "fetchOrderByCode",
                                        "createFulfillment", "addFulfillmentToOrder",
                                        "updateFulfillmentTracking",
                                        "transitionFulfillmentToState"})

InWebhook == entry \in {"webhookApi", "webhookLib"}

\* the event carries a carrier or a tracking number
CarriesShipmentDetails ==
  Truthy(wh.shipment.carrier) \/ Truthy(wh.shipment.tracking_number)

\* C5: for an event mapped to Shipped that carries a carrier or a tracking number, in
\* either webhook implementation, a state transition is only ever sent after a tracking
\* update of the same fulfillment, and no tracking update follows a state transition.
C5_TrackingBeforeTransition ==
  (InWebhook /\ wh.target = "Shipped" /\ CarriesShipmentDetails) =>
    \A j \in DOMAIN calls :
      calls[j].op = "transitionFulfillmentToState" =>
        /\ \E i \in 1..(j - 1) :
             /\ calls[i].op = "updateFulfillmentTracking"
             /\ calls[i].target = calls[j].target
        /\ \A k \in (j + 1)..Len(calls) : calls[k].op # "updateFulfillmentTracking"

SignatureRejected ==
  \/ entry = "webhookApi" /\ response = Http(401, "Invalid signature")
  \/ entry = "webhookLib" /\ response = Value(FALSE, "Invalid signature")

\* C6: with a webhook secret configured and no valid bypass secret supplied, a signature
\* other than the hex HMAC-SHA256 of the body is answered as an invalid signature with no
\* call to the Order System, and the HMAC itself is accepted; with no webhook secret, or
\* with a bypass secret equal to the job secret, the request is not rejected for its
\* signature.
C6_OnlyTheHmacIsAccepted ==
  (InWebhook /\ cfg.loaded) =>
    LET validBypass == Truthy(cfg.jobSecret) /\ req.secret = cfg.jobSecret
        mustVerify == Truthy(cfg.webhookSecret) /\ ~validBypass
        isHmac == req.signature = HmacSha256Hex(cfg.webhookSecret, "rawBody")
    IN /\ (mustVerify /\ ~isHmac) => (SignatureRejected /\ OrderSystemCalls = <<>>)
       /\ (mustVerify /\ isHmac) => req.body.parsed
       /\ ~mustVerify => req.body.parsed

\* the event read names an event that the implementation's event-to-state mapping does
\* not recognize
EventUnrecognized ==
  /\ req.body.parsed
  /\ req.body.json
  /\ Truthy(req.body.type)
  /\ IF entry = "webhookApi"
       THEN PRINTIFY_EVENT_MAP(req.body.type) = Null
       ELSE mapEventToState(req.body) = Null

\* C7: a webhook event with a correlation id whose event value is not recognized is
\* answered with a non-error result ({ignored: true} from the endpoint), and no tracking
\* update or state transition is sent for it.
C7_UnrecognizedIsIgnored ==
  (InWebhook /\ EventUnrecognized /\ Truthy(req.body.external_id)) =>
    /\ WebhookMutations = <<>>
    /\ (response.kind = "http" => response = Http(200, "ignored"))
    /\ (response.kind = "value" => response.ok)

\* C8: every tracking update and state transition of a webhook names the last fulfillment
\* of the order, and an event for an order without fulfillments ends in an error result,
\* not a success, with no tracking update or state transition sent.
C8_LatestFulfillmentOrError ==
  InWebhook =>
    /\ \A i \in DOMAIN WebhookMutations :
         /\ wh.order.fulfillments # <<>>
         /\ WebhookMutations[i].target = wh.order.fulfillments[Len(wh.order.fulfillments)].id
    /\ (pc = "done" /\ wh.order.code # Null /\ wh.order.fulfillments = <<>>) =>
         /\ WebhookMutations = <<>>
         /\ (response.kind = "http" => response.status # 200)
         /\ (response.kind = "value" => ~response.ok)

InBatch == entry \in {"endpoint", "cli"}

\* the fulfillment-creation mutations sent for the order with id `orderId`
CreationsFor(orderId) == SelectSeq(CreationCalls, LAMBDA c : c.target = orderId)

\* the handler code a creation mutation was sent with, in either shape
HandlerCodeOf(c) ==
  IF c.op = "createFulfillment" THEN c.arg.handlerCode ELSE c.arg.handler.code

\* C3: in a batch run of either kind, for every order the run sends at most one creation
\* mutation with the configured handler code (one invocation of createFulfillment) and at
\* most two creation mutations in all, the second being the retry with manual-fulfillment.
C3_AtMostOneCreationPerOrder ==
  InBatch =>
    \A i \in DOMAIN orders :
      LET sent == CreationsFor(orders[i].id)
      IN /\ Len(sent) <= 2
         /\ Len(SelectSeq(sent, LAMBDA c : HandlerCodeOf(c) = cfg.handlerCode)) <= 1
         /\ Len(sent) = 2 => HandlerCodeOf(sent[2]) = "manual-fulfillment"

\* a run has sent the retry for its first order and a creation for its second
C3_Witness ==
  /\ InBatch
  /\ Len(orders) >= 2
  /\ Len(CreationsFor(orders[1].id)) = 2
  /\ Len(CreationsFor(orders[2].id)) >= 1

MutatingOps ==
  {"printifyCreateOrder", "createFulfillment", "addFulfillmentToOrder",
   "updateFulfillmentTracking", "transitionFulfillmentToState"}

\* C9: with the dry-run flag set, no handler sends a partner order creation, a fulfillment
\* creation, a tracking update or a fulfillment state transition.
C9_DryRunSendsNoMutation ==
  cfg.dryRun => \A i \in DOMAIN calls : calls[i].op \notin MutatingOps

\* the run has reported the order: a failure or a success of the endpoint, a dry-run note,
\* or a notification of runFulfillOrders naming it
Reported(order) ==
  \/ \E i \in DOMAIN failures : failures[i].code = order.code
  \/ \E i \in DOMAIN dryRunNotes : dryRunNotes[i] = order.code
  \/ \E i \in DOMAIN calls : calls[i].op = "notify" /\ calls[i].arg = order.code

\* the run has recorded or reported a failure of the order
FailureReported(order) ==
  \/ \E i \in DOMAIN failures : failures[i].code = order.code
  \/ \E i \in DOMAIN calls :
       /\ calls[i].op = "notify"
       /\ calls[i].arg = order.code
       /\ calls[i].target \in {"Loi khi xu ly don hang", "Thieu mapping Printify cho order"}

\* C10: a batch run that has fetched its orders ends by returning its summary, never by
\* an error, whatever failed for single orders, and by then every fetched order with
\* outstanding lines has been reported, those after a failed order included.
C10_FailureDoesNotAbortRun ==
  (InBatch /\ pc = "done" /\ idx >= 1) =>
    /\ idx = Len(orders) + 1
    /\ response \in {Http(200, "updatedOrders"), Http(200, "dryRun"), Returned}
    /\ \A i \in DOMAIN orders :
         getOutstandingFulfillmentLines(orders[i]) # <<>> => Reported(orders[i])

\* the first order failed and a creation mutation was still sent for the second
C10_Witness ==
  /\ InBatch
  /\ pc = "done"
  /\ Len(orders) >= 2
  /\ FailureReported(orders[1])
  /\ CreationsFor(orders[2].id) # <<>>

\* the Order System was found to expose neither creation mutation
NeitherMutationExposed == schema.known /\ schema.names \cap CreationOps = {}

\* the position of the first introspection query in the call log, 0 when there is none
FirstIntrospection ==
  IF \E i \in DOMAIN calls : calls[i].op = "introspect"
    THEN CHOOSE i \in DOMAIN calls :
           /\ calls[i].op = "introspect"
           /\ \A j \in 1..(i - 1) : calls[j].op # "introspect"
    ELSE 0

UnsupportedReason == <<"Vendure Admin API does not support createFulfillment">>

\* C11 as stated: once the probe has found neither creation mutation, the batch run sends
\* no partner order creation and no creation mutation, and it ends with an error.
C11_UnsupportedEndsRun ==
  (InBatch /\ NeitherMutationExposed) =>
    /\ \A i \in DOMAIN calls :
         i > FirstIntrospection => calls[i].op \notin ({"printifyCreateOrder"} \cup CreationOps)
    /\ pc = "done" => response.kind \in {"rejected", "http"} /\ response # Http(200, "updatedOrders")

\* C11 amended: once the probe has found neither creation mutation, no creation mutation
\* is sent in the run, yet the run goes on order by order to its summary; the endpoint
\* fulfils nothing and records the unsupported-API failure for every order that reaches
\* the Order System step.
C11_UnsupportedIsPerOrder ==
  (InBatch /\ NeitherMutationExposed) =>
    /\ CreationCalls = <<>>
    /\ (pc = "done" /\ idx >= 1) => response \in {Http(200, "updatedOrders"), Http(200, "dryRun"), Returned}
    /\ entry = "endpoint" =>
         /\ ~canVendureFulfill
         /\ successCount = 0
         /\ \A i \in DOMAIN calls :
              (calls[i].op = "notify" /\ calls[i].target = "Order fulfillment skipped") =>
                \E j \in DOMAIN failures :
                  failures[j] = Failure(calls[i].arg, UnsupportedReason)
         /\ \A j \in DOMAIN failures :
              failures[j].reason # <<"Vendure Admin API does not support fulfillment mutations">>

\* the endpoint created a partner order for its second order after the probe found
\* neither mutation, recorded both orders as unsupported and returned its summary
C11_Witness ==
  /\ entry = "endpoint"
  /\ NeitherMutationExposed
  /\ pc = "done"
  /\ response = Http(200, "updatedOrders")
  /\ Len(orders) >= 2
  /\ \A k \in 1..2 : \E j \in DOMAIN failures : failures[j] = Failure(orders[k].code, UnsupportedReason)
  /\ \E i \in DOMAIN calls : calls[i].op = "printifyCreateOrder" /\ calls[i].target = orders[2].code

\* the mapping lookup key of an outstanding line: its SKU, or its variant name without one
LookupKey(line) == IF line.sku = Null THEN line.variantName ELSE line.sku

\* some outstanding line of the order has a lookup key without a mapping entry
KeyMissing(order) ==
  LET outstanding == getOutstandingFulfillmentLines(order)
  IN \E i \in DOMAIN outstanding : LookupKey(outstanding[i]) \notin ProductMapping

\* the run reported a missing mapping for the order
MappingFailure(order) ==
  \/ \E j \in DOMAIN failures :
       failures[j] = Failure(order.code, <<"Missing PRINTIFY_PRODUCT_MAPPING entry for SKU">>)
  \/ \E i \in DOMAIN calls :
       calls[i] = NotifyOrder("Thieu mapping Printify cho order", order.code)

\* a partner order was created for the order, by the partner or by the mock client
PartnerOrderCreated(order) ==
  \E i \in DOMAIN calls :
    \/ calls[i].op = "printifyCreateOrder" /\ calls[i].target = order.code
    \/ calls[i] = NotifyOrder("Printify order created", order.code)
    \/ calls[i] = NotifyOrder("Printify draft order created", order.code)

\* C12: in both batch runs a missing mapping is reported for an order only when the
\* lookup key (SKU, or variant name when the SKU is absent) of one of its outstanding
\* lines has no mapping entry, and no partner order is created for an order with such a
\* line.
C12_LookupKeyFallsBackToName ==
  InBatch =>
    \A i \in DOMAIN orders :
      /\ MappingFailure(orders[i]) => KeyMissing(orders[i])
      /\ KeyMissing(orders[i]) => ~PartnerOrderCreated(orders[i])

\* the lines of the order with something left to fulfil, straight from its quantities
LinesLeft(order) ==
  SelectSeq(order.lines, LAMBDA line : line.quantity - line.fulfilledQuantity > 0)

\* C13: every partner order request sent by a batch run has one line item per line of the
\* order with something left to fulfil, in order, each with the mapping entry of the
\* line's key and the quantity left (quantity - fulfilledQuantity); every creation
\* mutation sent for the order carries the same lines with the same quantities.
C13_ItemsAreTheOutstandingLines ==
  InBatch =>
    \A c \in DOMAIN calls :
      /\ calls[c].op = "printifyCreateOrder" =>
           \A i \in DOMAIN orders :
             orders[i].code = calls[c].target =>
               LET left == LinesLeft(orders[i])
                   key(line) == IF line.sku = Null THEN line.name ELSE line.sku
               IN /\ Len(calls[c].arg) = Len(left)
                  /\ \A k \in DOMAIN left :
                       /\ calls[c].arg[k].productId = MappingOf(key(left[k])).productId
                       /\ calls[c].arg[k].variantId = MappingOf(key(left[k])).variantId
                       /\ calls[c].arg[k].quantity = left[k].quantity - left[k].fulfilledQuantity
      /\ calls[c].op \in CreationOps =>
           \A i \in DOMAIN orders :
             orders[i].id = calls[c].target =>
               LET left == LinesLeft(orders[i])
               IN calls[c].arg.lines =
                    [k \in DOMAIN left |->
                       [orderLineId |-> left[k].id,
                        quantity |-> left[k].quantity - left[k].fulfilledQuantity]]

\* a partner order and then a creation mutation were sent for an order of which one line
\* is partly fulfilled, one fully and one not at all
C13_Witness ==
  /\ InBatch
  /\ \E i \in DOMAIN orders :
       /\ Len(orders[i].lines) = 3
       /\ Len(LinesLeft(orders[i])) = 2
       /\ LinesLeft(orders[i])[1].quantity - LinesLeft(orders[i])[1].fulfilledQuantity = 1
       /\ LinesLeft(orders[i])[1].quantity = 2
       /\ \E c \in DOMAIN calls : \E d \in DOMAIN calls :
            /\ c < d
            /\ calls[c].op = "printifyCreateOrder" /\ calls[c].target = orders[i].code
            /\ Len(calls[c].arg) = 2
            /\ calls[d].op \in CreationOps /\ calls[d].target = orders[i].id

\* the body was accepted and read as a JSON event
EventRead == req.body.parsed /\ req.body.json

\* the answer to a malformed event
MalformedAnswer ==
  IF entry = "webhookApi" THEN Http(400, "Missing event or external_id")
                          ELSE Value(FALSE, "Missing external_id")

\* C14: a webhook event read without a correlation id ends with the malformed-event
\* answer, and neither an order lookup nor a tracking update or state transition is made
\* for it.
C14_NoCorrelationIdIsMalformed ==
  (InWebhook /\ EventRead /\ ~Truthy(req.body.external_id)) =>
    /\ CallsOf("fetchOrderByCode") = <<>>
    /\ WebhookMutations = <<>>
    /\ pc = "done" => response = MalformedAnswer

NotFoundAnswer ==
  IF entry = "webhookApi" THEN Http(404, "Order not found") ELSE Value(FALSE, "Order not found")

LookupFailedAnswer ==
  IF entry = "webhookApi" THEN Http(500, "Vendure request failed")
                          ELSE Rejected("Vendure request failed")

\* C15: a webhook looks the order up under the event's correlation id, and when the Order
\* System has no order of that code the event ends with the order-not-found answer (or
\* with the failure of the lookup itself) and no tracking update or state transition is
\* sent.
C15_UnknownOrderIsNotFound ==
  InWebhook =>
    /\ \A i \in DOMAIN calls :
         calls[i].op = "fetchOrderByCode" => calls[i].target = req.body.external_id
    /\ (CallsOf("fetchOrderByCode") # <<>> /\ req.body.external_id \notin WebhookOrderCodes) =>
         /\ WebhookMutations = <<>>
         /\ pc = "done"
         /\ response \in {NotFoundAnswer, LookupFailedAnswer}

\* an event for an order the Order System does not have was answered order-not-found
C15_Witness ==
  /\ InWebhook
  /\ pc = "done"
  /\ req.body.external_id = "ORD-404"
  /\ CallsOf("fetchOrderByCode") # <<>>
  /\ response = NotFoundAnswer

\* the rule table: delivered, else shipped, else fulfilled, else unrecognized, each matched
\* as a substring of the lower-cased type or as the lower-cased status
RuleTarget(type, status) ==
  LET matches(word) == \/ Includes(ToLower(Chars(OrEmpty(type))), Chars(word))
                       \/ ToLower(Chars(OrEmpty(status))) = Chars(word)
  IN CASE matches("delivered") -> "Delivered"
       [] ~matches("delivered") /\ matches("shipped") -> "Shipped"
       [] ~matches("delivered") /\ ~matches("shipped") /\ matches("fulfilled") -> "Fulfilled"
       [] OTHER -> Null

\* C16: for every event read by a webhook, the endpoint's PRINTIFY_EVENT_MAP and
\* mapEventToState both give the target state of the rule table.
C16_BothMappingsFollowRuleTable ==
  (InWebhook /\ EventRead /\ Truthy(req.body.type)) =>
    /\ PRINTIFY_EVENT_MAP(req.body.type) = RuleTarget(req.body.type, Null)
    /\ mapEventToState(req.body) = RuleTarget(req.body.type, req.body.status)

\* C17: with a job secret configured, a POST to the batch endpoint whose provided secret
\* differs from it is answered 401 without any call, and one whose provided secret equals
\* it is admitted; with no job secret configured every POST is admitted.
C17_SecretGuardsEndpoint ==
  (entry = "endpoint" /\ req.method = "POST" /\ cfg.loaded) =>
    IF Truthy(cfg.jobSecret) /\ req.secret # cfg.jobSecret
      THEN /\ pc = "done"
           /\ response = Http(401, "Invalid or missing automation secret.")
           /\ calls = <<>>
      ELSE /\ response # Http(401, "Invalid or missing automation secret.")
           /\ calls # <<>>
           /\ calls[1] = Notify("Fulfillment job starting")

\* a POST with a wrong secret was turned away
C17_Witness ==
  /\ entry = "endpoint"
  /\ cfg.jobSecret = "job-secret"
  /\ req.secret = "guess"
  /\ response = Http(401, "Invalid or missing automation secret.")

\* C18: a notification returns normally whatever becomes of its delivery (delivered,
\* answered with a non-OK status, failed on the network, or not sent because reporting is
\* disabled), and a failed delivery is logged.
C18_NotifyNeverRaises ==
  (entry = "notify" /\ pc = "done") =>
    /\ response = Returned
    /\ (tg.delivery \in {"notOk", "networkError"}) => tg.logged
    /\ (tg.delivery \in {"ok", "disabled"}) => ~tg.logged

\* a notification whose request failed on the network has returned
C18_Witness ==
  /\ entry = "notify"
  /\ pc = "done"
  /\ tg.enabled
  /\ tg.delivery = "networkError"
  /\ \E i \in DOMAIN calls : calls[i].op = "sendMessage"

\* the partner order request at position c of the log failed
PartnerFailedAt(c) ==
  /\ calls[c].op = "printifyCreateOrder"
  /\ c + 1 \in DOMAIN calls
  /\ calls[c + 1] \in {NotifyOrder("Printify order creation failed", calls[c].target),
                       NotifyOrder("Loi khi xu ly don hang", calls[c].target)}

\* a partner order was requested for the order and the request failed
PartnerFailed(order) ==
  \E c \in DOMAIN calls : calls[c].target = order.code /\ PartnerFailedAt(c)

\* the partner order of the order with id `orderId` was created earlier than position d
PartnerCreatedBefore(orderId, d) ==
  \E i \in DOMAIN orders :
    /\ orders[i].id = orderId
    /\ \E c \in 1..(d - 1) :
         calls[c] \in {NotifyOrder("Printify order created", orders[i].code),
                       NotifyOrder("Printify draft order created", orders[i].code)}

\* C19: in a batch run with Printify enabled, every creation mutation for an order comes
\* after the partner order of that order was created, and an order whose partner order
\* request failed has that failure reported and gets no creation mutation.
C19_PartnerOrderFirst ==
  (InBatch /\ cfg.printifyEnabled) =>
    \A c \in DOMAIN calls :
      /\ calls[c].op \in CreationOps => PartnerCreatedBefore(calls[c].target, c)
      /\ PartnerFailedAt(c) =>
           /\ \A i \in DOMAIN orders :
                orders[i].code = calls[c].target => CreationsFor(orders[i].id) = <<>>
           /\ entry = "endpoint" =>
                \E j \in DOMAIN failures :
                  failures[j] = Failure(calls[c].target, <<"Printify request failed">>)

\* the partner order of the first order failed, and the second order got its partner
\* order and then a creation mutation
C19_Witness ==
  /\ InBatch
  /\ cfg.printifyEnabled
  /\ Len(orders) >= 2
  /\ PartnerFailed(orders[1])
  /\ \E c \in DOMAIN calls : \E d \in DOMAIN calls :
       /\ c < d
       /\ calls[c].op = "printifyCreateOrder" /\ calls[c].target = orders[2].code
       /\ calls[d].op \in CreationOps /\ calls[d].target = orders[2].id

\* the calls of the invocation other than notifications
Work == SelectSeq(calls, LAMBDA c : c.op # "notify")

\* C20: in a batch run and in a webhook invocation, login is the first call other than a
\* notification, and when login fails (an error answer or anything other than a
\* CurrentUser) the invocation ends rejected with the login error and no order query,
\* partner order, creation mutation, tracking update or state transition is issued.
C20_LoginFirstAndFailureRejects ==
  (InBatch \/ InWebhook) =>
    /\ Work # <<>> => Work[1].op = "login"
    /\ \A c \in DOMAIN Work :
         (Work[c].op = "login" /\ Work[c].arg # "CurrentUser") =>
           /\ Len(Work) = 1
           /\ pc = "done"
           /\ response \in {Http(500, LoginFailure(Work[c].arg)),
                            Rejected(LoginFailure(Work[c].arg))}

\* the endpoint was answered 500 after the Order System refused the credentials
C20_Witness ==
  /\ entry = "endpoint"
  /\ pc = "done"
  /\ Work = <<Call("login", Null, "InvalidCredentialsError")>>
  /\ response = Http(500, "Invalid Vendure admin credentials.")

\* the target states the documentation names for a batch run
DocumentedTargetStates == {"PaymentSettled", "PaymentAuthorized"}

\* the call creates a partner order or a fulfillment for the order
CreatesFor(c, order) ==
  \/ c.op = "printifyCreateOrder" /\ c.target = order.code
  \/ c.op \in CreationOps /\ c.target = order.id

\* C21: in a batch run at most maxOrdersPerRun orders are processed, and every order that
\* gets a partner order or a creation mutation is in state PaymentSettled or
\* PaymentAuthorized.
C21_OnlyTargetStatesWithinMaximum ==
  InBatch =>
    /\ Len(orders) <= cfg.maxOrdersPerRun
    /\ \A c \in DOMAIN calls : \A i \in DOMAIN orders :
         CreatesFor(calls[c], orders[i]) => orders[i].state \in DocumentedTargetStates

\* the target state the handler at hand maps the event to
MappedTarget ==
  IF entry = "webhookApi" THEN PRINTIFY_EVENT_MAP(req.body.type) ELSE mapEventToState(req.body)

TrackingUpdates == SelectSeq(calls, LAMBDA c : c.op = "updateFulfillmentTracking")

Transitions == SelectSeq(calls, LAMBDA c : c.op = "transitionFulfillmentToState")

\* C22: a webhook invocation sends no creation mutation and no partner order; its only
\* mutations are at most one tracking update and at most one transition, both for the last
\* fulfillment of the order found, and the transition names the state the event maps to.
C22_OnlyTheSelectedFulfillmentIsTouched ==
  InWebhook =>
    /\ \A c \in DOMAIN calls : calls[c].op \notin CreationOps \cup {"printifyCreateOrder"}
    /\ Len(TrackingUpdates) <= 1
    /\ Len(Transitions) <= 1
    /\ \A i \in DOMAIN WebhookMutations :
         /\ wh.order.fulfillments # <<>>
         /\ WebhookMutations[i].target = wh.order.fulfillments[Len(wh.order.fulfillments)].id
         /\ WebhookMutations[i].op = "transitionFulfillmentToState" =>
              /\ MappedTarget # Null
              /\ WebhookMutations[i].arg = MappedTarget

\* a shipped event with a tracking number was processed for an order with two
\* fulfillments: one tracking update and one transition were sent
C22_Witness ==
  /\ InWebhook
  /\ pc = "done"
  /\ Len(wh.order.fulfillments) = 2
  /\ Len(TrackingUpdates) = 1
  /\ Len(Transitions) = 1

PartnerRequests == SelectSeq(calls, LAMBDA c : c.op = "printifyCreateOrder")

\* C23: in a batch run every partner order request carries as external_id the code of a
\* fetched order that has outstanding lines, and no two requests of the run carry the same
\* external_id.
C23_ExternalIdIsTheOrderCodeOnce ==
  InBatch =>
    /\ \A c \in DOMAIN PartnerRequests :
         \E i \in DOMAIN orders :
           /\ PartnerRequests[c].target = orders[i].code
           /\ LinesLeft(orders[i]) # <<>>
    /\ \A c \in DOMAIN PartnerRequests : \A d \in DOMAIN PartnerRequests :
         PartnerRequests[c].target = PartnerRequests[d].target => c = d

\* two orders of one run each got a partner order request, under their two codes
C23_Witness ==
  /\ InBatch
  /\ Len(orders) >= 2
  /\ Len(PartnerRequests) = 2
  /\ PartnerRequests[1].target = orders[1].code
  /\ PartnerRequests[2].target = orders[2].code

\* the failures recorded for the order
FailuresOf(order) == SelectSeq(failures, LAMBDA f : f.code = order.code)

\* the successes reported for the order
SuccessesOf(order) ==
  SelectSeq(calls, LAMBDA c : c = NotifyOrder("Order fulfilled", order.code))

\* the orders the loop is through that had outstanding lines
AccountableOrders == {i \in DOMAIN orders : i < idx /\ LinesLeft(orders[i]) # <<>>}

\* C24: in a run of the endpoint that is not a dry run, every order the loop is through
\* that has outstanding lines is counted exactly once, as a success or as one failure,
\* every other order is in neither, and successCount + |failures| is the number of
\* those orders.
C24_EachOrderAccountedOnce ==
  (entry = "endpoint" /\ cfg.loaded /\ ~cfg.dryRun) =>
    /\ \A i \in DOMAIN orders :
         Len(FailuresOf(orders[i])) + Len(SuccessesOf(orders[i]))
           = IF i \in AccountableOrders THEN 1 ELSE 0
    /\ successCount + Len(failures) = Cardinality(AccountableOrders)
    /\ (pc = "done" /\ response = Http(200, "updatedOrders")) => idx = Len(orders) + 1

\* a finished run of two orders with one success and one failure
C24_Witness ==
  /\ entry = "endpoint"
  /\ ~cfg.dryRun
  /\ pc = "done"
  /\ response = Http(200, "updatedOrders")
  /\ successCount = 1
  /\ Len(failures) = 1
  /\ Len(orders) = 2

\* the schema introspection queries sent to the Order System
Introspections == SelectSeq(calls, LAMBDA c : c.op = "introspect")

\* C25: in a batch run the schema introspection query is sent to the Order System at most
\* once.
C25_ProbeAtMostOncePerRun == InBatch => Len(Introspections) <= 1

\* the positions of the order's lines with something outstanding
Kept == {i \in DOMAIN calcOrder.lines :
           calcOrder.lines[i].quantity - calcOrder.lines[i].fulfilledQuantity > 0}

\* the k-th smallest position of Kept
KeptAt(k) == CHOOSE i \in Kept : Cardinality({j \in Kept : j <= i}) = k

\* the result has one entry per line with something outstanding, in the order of the lines
ResultIsTheKeptLines ==
  /\ Len(calcResult) = Cardinality(Kept)
  /\ \A k \in DOMAIN calcResult :
       LET line == calcOrder.lines[KeptAt(k)]
       IN calcResult[k] = [orderLineId |-> line.id,
                           quantity |-> line.quantity - line.fulfilledQuantity,
                           sku |-> line.sku,
                           variantName |-> line.name]

StatusCodes == {200, 400, 401, 404, 405, 500}

\* C27: a request to the fulfill-orders endpoint or to the printify-webhook endpoint that
\* has ended was answered with a JSON response carrying one of the status codes 200, 400,
\* 401, 404, 405, 500.
C27_EveryRequestIsAnswered ==
  (entry \in {"endpoint", "webhookApi"} /\ pc = "done") =>
    /\ response.kind = "http"
    /\ response.status \in StatusCodes

\* the line is a well-formed mapping row: three parts, a SKU, numeric ids
WellFormed(line) ==
  ~line.header /\ line.parts >= 3 /\ line.sku # "" /\ line.productId.num /\ line.variantId.num

\* two well-formed rows of the source read give the same SKU
DuplicateKey ==
  \E i \in DOMAIN mapping.lines : \E j \in DOMAIN mapping.lines :
    /\ i < j
    /\ WellFormed(mapping.lines[i])
    /\ WellFormed(mapping.lines[j])
    /\ mapping.lines[i].sku = mapping.lines[j].sku

\* C28: loading a mapping source in which two rows give the same SKU fails with a
\* configuration error.
C28_DuplicateKeyIsAnError ==
  (entry = "config" /\ pc = "done" /\ DuplicateKey) => mapping.result.kind = "threw"

\* C29: in a call of createFulfillment every creation mutation sent is one the backend
\* exposes, only createFulfillment is sent when the backend exposes both, and a retry uses
\* the mutation of the first attempt.
C29_ModernShapePreferredAndKept ==
  entry = "create" =>
    /\ \A c \in DOMAIN CallCreations :
         /\ schema.known
         /\ CallCreations[c].op \in schema.names
         /\ "createFulfillment" \in schema.names => CallCreations[c].op = "createFulfillment"
    /\ Len(CallCreations) = 2 => CallCreations[2].op = CallCreations[1].op

\* a backend exposing both mutations answered the first attempt with an invalid handler
\* and the retry went out as createFulfillment too
C29_Witness ==
  /\ entry = "create"
  /\ CallFinished
  /\ schema.names = {"createFulfillment", "addFulfillmentToOrder"}
  /\ Len(CallCreations) = 2
  /\ CallCreations[1].op = "createFulfillment"
  /\ CallCreations[2].op = "createFulfillment"

\* the capability probe of the endpoint was sent and its request failed
ProbeFailed == entry = "endpoint" /\ Introspections # <<>> /\ ~schema.known

UnsupportedFailure(order) ==
  Failure(order.code, <<"Vendure Admin API does not support createFulfillment">>)

\* C30: when the introspection request of the endpoint's capability probe fails, the probe
\* answers false and the run goes on to the orders query instead of ending with the
\* probe's error; no creation mutation is sent, and in a run that is not a dry run every
\* order the loop is through that has outstanding lines is recorded as one failure, the
\* unsupported-backend failure unless its partner order failed first.
C30_FailedProbeMeansUnsupported ==
  ProbeFailed =>
    /\ ~canVendureFulfill
    /\ CreationCalls = <<>>
    /\ Len(Introspections) = 1
    /\ pc = "done" => \E c \in DOMAIN calls : calls[c].op = "fetchOrders"
    /\ ~cfg.dryRun =>
         \A i \in AccountableOrders :
           /\ Len(FailuresOf(orders[i])) = 1
           /\ Len(SuccessesOf(orders[i])) = 0
           /\ (~cfg.printifyEnabled => FailuresOf(orders[i]) = <<UnsupportedFailure(orders[i])>>)

\* after a failed probe a run without Printify has ended with its summary, both of its
\* orders recorded as unsupported-backend failures
C30_Witness ==
  /\ ProbeFailed
  /\ pc = "done"
  /\ response = Http(200, "updatedOrders")
  /\ ~cfg.printifyEnabled
  /\ Len(orders) = 2
  /\ failures = <<UnsupportedFailure(orders[1]), UnsupportedFailure(orders[2])>>

====
